---- MODULE Spec2Model ----
(***************************************************************************)
(* Model of the Bitrix24 status bot: the incident store (IncidentTracker   *)
(* over the SQLite connection), the AlertDeduplicator and the poll loop of *)
(* StatusMonitor.                                                          *)
(*                                                                         *)
(* Encoding of Python values                                               *)
(*   None (an id or a message id)   0   (row ids and message ids are >= 1) *)
(*   None (a datetime)              NoTime                                 *)
(*   None (a TEXT column)           NULL                                   *)
(*   a datetime / time.time()       whole seconds since the model's epoch  *)
(*   a key missing from a dict      Absent                                 *)
(* isoformat()/fromisoformat() of an aware datetime is lossless, so the    *)
(* start_time and end_time columns hold the clock value itself.            *)
(***************************************************************************)
EXTENDS Integers, Sequences, FiniteSets, TLC

\* ------------------------------------------------------------------ bounds
MaxRows == 3
MaxTicks == 3
MaxSkew == 1
MaxFaults == 1

\* ------------------------------------------------------- program constants
DEDUP_WINDOW == 300
CLEANUP_INTERVAL == 600
MONITORING_CHECK_INTERVAL_DISABLED == 60
ADMIN_ALERT_ERROR_THRESHOLD == 5

NoTime == -1
Absent == -1
NULL == "<NULL>"

\* ------------------------------------------------------------------ helpers
Max(a, b) == IF a >= b THEN a ELSE b

Digits == <<"0", "1", "2", "3", "4", "5", "6", "7", "8", "9">>

RECURSIVE ToStr(_)
ToStr(n) == IF n < 10 THEN Digits[n + 1] ELSE ToStr(n \div 10) \o Digits[(n % 10) + 1]

\* f"{n:02}" for n >= 0
Pad2(n) == IF n < 10 THEN "0" \o ToStr(n) ELSE ToStr(n)

RECURSIVE Join(_, _)
Join(seq, sep) ==
  IF seq = <<>> THEN ""
  ELSE IF Len(seq) = 1 THEN seq[1]
  ELSE seq[1] \o sep \o Join(Tail(seq), sep)

\* utils/time_utils.py format_duration, given the value its own get_msk_time()
\* call returns
format_duration(start_time, clock) ==
  LET seconds == clock - start_time
      hours   == seconds \div 3600
      minutes == (seconds % 3600) \div 60
      secs    == seconds % 60
  IN  Pad2(hours) \o ":" \o Pad2(minutes) \o ":" \o Pad2(secs)

\* ---------------------------------------------------------- incident store
\* A row of table incidents; its id is its position (INTEGER PRIMARY KEY
\* AUTOINCREMENT, rows are never deleted).
components_str(components) == IF components = <<>> THEN NULL ELSE Join(components, ",")

NewRow(start_time, description, region, components) ==
  [start_time  |-> start_time,
   end_time    |-> NoTime,
   duration    |-> NULL,
   description |-> description,
   region      |-> region,
   status      |-> "active",
   components  |-> components_str(components)]

ActiveIds(rows) == {i \in 1..Len(rows) : rows[i].status = "active"}

\* SELECT ... WHERE status = 'active' ORDER BY start_time DESC LIMIT 1: the rows
\* the query may return (SQLite leaves the order of equal start_times open)
LatestActive(rows) ==
  {i \in ActiveIds(rows) : \A j \in ActiveIds(rows) : rows[j].start_time <= rows[i].start_time}

\* SELECT ... ORDER BY start_time DESC LIMIT 1
LatestAny(rows) ==
  {i \in 1..Len(rows) : \A j \in 1..Len(rows) : rows[j].start_time <= rows[i].start_time}

\* ------------------------------------------------------- IncidentTracker
\* The operations act on T = [inc, dur, cur]: inc the table as the connection
\* sees it (pending writes of its open transaction included), dur the committed
\* table, cur the tracker's current_incident_id.  Each returns T with ret (the
\* returned id, 0 for None) and, where the clock is read, clk.
\* fault names the database call that raises in this invocation, "none" if none.
\* A commit that raises leaves the statement before it pending in the open
\* transaction (nothing in the code rolls back), so the next commit on the
\* connection makes it durable; a commit that raises and rolls back by itself
\* leaves what a raising execute leaves.

\* a start_incident without the test of current_incident_id
start_incident_always(T, clock, description, region, components, fault) ==
  LET inc2 == Append(T.inc, NewRow(clock, description, region, components))
  IN  [inc |-> inc2, dur |-> inc2, cur |-> Len(inc2), ret |-> Len(inc2)]

start_incident(T, clock, description, region, components, fault) ==
  IF T.cur = 0 THEN
    IF fault = "start_execute" THEN
      [inc |-> T.inc, dur |-> T.dur, cur |-> 0, ret |-> 0]
    ELSE
      LET inc2 == Append(T.inc, NewRow(clock, description, region, components))
      IN  IF fault = "start_commit" THEN
            [inc |-> inc2, dur |-> T.dur, cur |-> 0, ret |-> 0]
          ELSE
            [inc |-> inc2, dur |-> inc2, cur |-> Len(inc2), ret |-> Len(inc2)]
  ELSE
    [inc |-> T.inc, dur |-> T.dur, cur |-> T.cur, ret |-> T.cur]

\* end_incident reads the clock twice: end_time = get_msk_time() (line 79) and
\* again inside format_duration (line 81); skew is the advance between the two.
\* (an end_incident that forgets the pointer without the UPDATE)
end_incident_keepactive(T, clock, skew, fault) ==
  [inc |-> T.inc, dur |-> T.dur, cur |-> 0, ret |-> T.cur, clk |-> clock]

\* (an end_incident that keeps current_incident_id after the UPDATE)
end_incident_keeppointer(T, clock, skew, fault) ==
  IF T.cur \in 1..Len(T.inc) THEN
    LET row  == T.inc[T.cur]
        inc2 == [T.inc EXCEPT ![T.cur] =
                   [row EXCEPT !.end_time = clock,
                               !.duration = format_duration(row.start_time, clock + skew),
                               !.status   = "resolved"]]
    IN  [inc |-> inc2, dur |-> inc2, cur |-> T.cur, ret |-> T.cur, clk |-> clock + skew]
  ELSE
    [inc |-> T.inc, dur |-> T.dur, cur |-> T.cur, ret |-> 0, clk |-> clock]

end_incident(T, clock, skew, fault) ==
  IF T.cur # 0 THEN
    IF fault = "end_read" THEN
      [inc |-> T.inc, dur |-> T.dur, cur |-> T.cur, ret |-> 0, clk |-> clock]
    ELSE IF T.cur \in 1..Len(T.inc) THEN
      LET row      == T.inc[T.cur]
          end_time == clock
          duration == format_duration(row.start_time, clock + skew)
          inc2     == [T.inc EXCEPT ![T.cur] =
                         [row EXCEPT !.end_time = end_time,
                                     !.duration = duration,
                                     !.status   = "resolved"]]
      IN  IF fault = "end_execute" THEN
            [inc |-> T.inc, dur |-> T.dur, cur |-> T.cur, ret |-> 0, clk |-> clock + skew]
          ELSE IF fault = "end_commit" THEN
            [inc |-> inc2, dur |-> T.dur, cur |-> T.cur, ret |-> 0, clk |-> clock + skew]
          ELSE IF fault = "end_reread" THEN
            [inc |-> inc2, dur |-> inc2, cur |-> T.cur, ret |-> 0, clk |-> clock + skew]
          ELSE
            [inc |-> inc2, dur |-> inc2, cur |-> 0, ret |-> T.cur, clk |-> clock + skew]
    ELSE
      [inc |-> T.inc, dur |-> T.dur, cur |-> T.cur, ret |-> 0, clk |-> clock]
  ELSE
    [inc |-> T.inc, dur |-> T.dur, cur |-> 0, ret |-> 0, clk |-> clock]

\* pick is the row the ORDER BY ... LIMIT 1 query returns (0 when it returns none)
\* (a get_active_incident that looks at current_incident_id only)
get_active_incident_pointer(T, pick, fault) ==
  [inc |-> T.inc, dur |-> T.dur, cur |-> T.cur,
   ret |-> IF fault # "active_read" /\ T.cur # 0 /\ T.cur \in ActiveIds(T.inc)
           THEN T.cur ELSE 0]

get_active_incident(T, pick, fault) ==
  IF fault = "active_read" THEN
    [inc |-> T.inc, dur |-> T.dur, cur |-> T.cur, ret |-> 0]
  ELSE IF T.cur # 0 /\ T.cur \in ActiveIds(T.inc) THEN
    [inc |-> T.inc, dur |-> T.dur, cur |-> T.cur, ret |-> T.cur]
  ELSE IF pick # 0 THEN
    [inc |-> T.inc, dur |-> T.dur, cur |-> pick, ret |-> pick]
  ELSE
    [inc |-> T.inc, dur |-> T.dur, cur |-> T.cur, ret |-> 0]

restore_active_incident(T, pick, fault) ==
  LET A == get_active_incident(T, pick, fault)
  IN  IF A.ret # 0 THEN [A EXCEPT !.cur = A.ret] ELSE A

\* The picks a query over rows may make
Picks(rows) == IF LatestActive(rows) = {} THEN {0} ELSE LatestActive(rows)

\* SELECT * FROM incidents ORDER BY start_time DESC LIMIT limit: the sets of
\* row ids the query may return (the order among equal start_times is open;
\* the order inside the result is not modelled)
get_recent_incidents(rows, limit) ==
  LET Ids == 1..Len(rows)
      n   == IF Len(rows) < limit THEN Len(rows) ELSE limit
  IN  {S \in SUBSET Ids :
         /\ Cardinality(S) = n
         /\ \A i \in S, j \in Ids \ S : rows[j].start_time <= rows[i].start_time}

\* SELECT COUNT(*) FROM incidents
get_incidents_count(rows) == Len(rows)

\* ------------------------------------------------------------- CSV export
\* Free text is a sequence of characters, so that the separators inside it can
\* be counted.  A value printed by strftime, format_duration or str(None) holds
\* no comma and no newline and is one symbol; so is each Russian word of the
\* header and of the end_time placeholder, written here in English.
RECURSIVE JoinText(_, _)
JoinText(seq, sep) ==
  IF seq = <<>> THEN <<>>
  ELSE IF Len(seq) = 1 THEN seq[1]
  ELSE seq[1] \o sep \o JoinText(Tail(seq), sep)

\* ','.join(components) if components else None, on texts
components_text(components) == IF components = <<>> THEN NULL ELSE JoinText(components, <<",">>)

\* str.replace(old, new) for single characters
replace(text, old, new) == [i \in 1..Len(text) |-> IF text[i] = old THEN new ELSE text[i]]

\* f"{value}" of a column: None prints as the word None
Shown(value) == IF value = NULL THEN <<"None">> ELSE value

\* the line of one incident (lines 233-251)
csv_line(incident) ==
  LET start_date  == <<"%Y-%m-%d">>
      start_time  == <<"%H:%M:%S">>
      end_time    == IF incident.end_time # NoTime THEN <<"%H:%M:%S">> ELSE <<"in-progress">>
      duration    == IF incident.duration = NULL THEN <<"None">> ELSE <<incident.duration>>
      region      == Shown(incident.region)
      components  == Shown(incident.components)
      description == replace(replace(IF incident.description = NULL THEN <<>>
                                     ELSE incident.description, ",", ";"), "\n", " ")
  IN  JoinText(<<start_date, start_time, end_time, duration, region, components,
                 <<"\"">> \o description \o <<"\"">> >>, <<",">>)

csv_header ==
  JoinText(<< <<"Date">>, <<"StartTime">>, <<"EndTime">>, <<"Duration">>,
              <<"Region">>, <<"Components">>, <<"Description">> >>, <<",">>)

\* rows in the order of ORDER BY start_time DESC; order is one of the orders
\* the query may return
export_to_csv_format(rows, order) ==
  JoinText(<<csv_header>> \o [k \in 1..Len(order) |-> csv_line(rows[order[k]])], <<"\n">>)

\* The orders ORDER BY start_time DESC may give to rows
Descending(rows) ==
  {o \in [1..Len(rows) -> 1..Len(rows)] :
     /\ \A a, b \in 1..Len(rows) : a # b => o[a] # o[b]
     /\ \A a, b \in 1..Len(rows) : a < b => rows[o[a]].start_time >= rows[o[b]].start_time}

\* text.split(sep)
RECURSIVE Split(_, _, _)
Split(text, sep, cur) ==
  IF text = <<>> THEN <<cur>>
  ELSE IF Head(text) = sep THEN <<cur>> \o Split(Tail(text), sep, <<>>)
  ELSE Split(Tail(text), sep, Append(cur, Head(text)))

\* What a reader of the file sees: its lines, and the fields of a line
Lines(text) == Split(text, "\n", <<>>)
Fields(line) == Split(line, ",", <<>>)

\* ------------------------------------------------------ SubscriberManager
\* rows is table subscribers (chat_id INTEGER PRIMARY KEY) as a sequence of
\* chat ids.  add_subscriber and remove_subscriber return [rows, ret].

\* SELECT chat_id FROM subscribers WHERE chat_id = ?: whether a row is fetched
Existing(rows, chat_id) == \E i \in 1..Len(rows) : rows[i] = chat_id

\* DELETE FROM subscribers WHERE chat_id = ?
RECURSIVE Delete(_, _)
Delete(rows, chat_id) ==
  IF rows = <<>> THEN <<>>
  ELSE IF Head(rows) = chat_id THEN Delete(Tail(rows), chat_id)
  ELSE <<Head(rows)>> \o Delete(Tail(rows), chat_id)

\* (an INSERT into a table whose chat_id is not a key)
insert_subscriber_nokey(rows, chat_id) ==
  [rows |-> Append(rows, chat_id), ok |-> TRUE]

\* INSERT INTO subscribers (chat_id) VALUES (?): chat_id is the PRIMARY KEY, so
\* the INSERT of a chat id the table holds raises sqlite3.IntegrityError
insert_subscriber(rows, chat_id) ==
  IF Existing(rows, chat_id) THEN [rows |-> rows, ok |-> FALSE]
  ELSE [rows |-> Append(rows, chat_id), ok |-> TRUE]

\* (an add_subscriber without the SELECT, on a table without the primary key)
add_subscriber_insert(rows, chat_id) ==
  [rows |-> Append(rows, chat_id), ret |-> TRUE]

add_subscriber(rows, chat_id) ==
  IF Existing(rows, chat_id) THEN [rows |-> rows, ret |-> FALSE]
  ELSE [rows |-> Append(rows, chat_id), ret |-> TRUE]

\* cursor.rowcount > 0
remove_subscriber(rows, chat_id) ==
  LET rows2 == Delete(rows, chat_id)
  IN  [rows |-> rows2, ret |-> Len(rows) - Len(rows2) > 0]

is_subscribed(rows, chat_id) == Existing(rows, chat_id)

\* SELECT COUNT(*) FROM subscribers
get_count(rows) == Len(rows)

get_all(rows) == {rows[i] : i \in 1..Len(rows)}

\* ------------------------------------------------------- AlertDeduplicator
\* D = [hist, lc]: _alert_history as a function fingerprint -> [ts, count], and
\* _last_cleanup.  Operations return D with ret.
EmptyMap == [k \in {} |-> 0]

\* Python's order of the component names the model uses
CompOrder == <<"CRM", "Mail">>
Rank(c) == CHOOSE i \in 1..Len(CompOrder) : CompOrder[i] = c

RECURSIVE Insert(_, _)
Insert(c, seq) ==
  IF seq = <<>> THEN <<c>>
  ELSE IF Rank(c) <= Rank(seq[1]) THEN <<c>> \o seq
  ELSE <<seq[1]>> \o Insert(c, Tail(seq))

\* sorted(components)
RECURSIVE Sorted(_)
Sorted(seq) == IF seq = <<>> THEN <<>> ELSE Insert(seq[1], Sorted(Tail(seq)))

\* The md5 hexdigest is taken to be injective on the key it digests.
\* (a fingerprint of the components in the order they are listed)
_generate_alert_hash_unsorted(region, status, components) ==
  region \o "|" \o status \o "|" \o Join(components, ",")

_generate_alert_hash(region, status, components) ==
  region \o "|" \o status \o "|" \o Join(Sorted(components), ",")

\* (a sweep that does not wait for the cleanup interval)
_cleanup_old_alerts_eager(D, clock) ==
  LET cutoff_time == clock - (DEDUP_WINDOW * 2)
      keep == {k \in DOMAIN D.hist : ~(D.hist[k].ts < cutoff_time)}
  IN  [hist |-> [k \in keep |-> D.hist[k]], lc |-> clock]

_cleanup_old_alerts(D, clock) ==
  IF clock - D.lc < CLEANUP_INTERVAL THEN D
  ELSE LET cutoff_time == clock - (DEDUP_WINDOW * 2)
           keep == {k \in DOMAIN D.hist : ~(D.hist[k].ts < cutoff_time)}
       IN  [hist |-> [k \in keep |-> D.hist[k]], lc |-> clock]

Put(h, key, val) == [k \in (DOMAIN h) \cup {key} |-> IF k = key THEN val ELSE h[k]]

\* (a should_send_alert whose window slides with every suppressed duplicate)
should_send_alert_slide(D, components, status, region, clock) ==
  IF status = "up" THEN [hist |-> D.hist, lc |-> D.lc, ret |-> TRUE]
  ELSE
    LET C == _cleanup_old_alerts(D, clock)
        alert_hash == _generate_alert_hash(region, status, components)
    IN  IF alert_hash \in DOMAIN C.hist /\ clock - C.hist[alert_hash].ts < DEDUP_WINDOW THEN
          [hist |-> Put(C.hist, alert_hash,
                        [ts |-> clock, count |-> C.hist[alert_hash].count + 1]),
           lc |-> C.lc, ret |-> FALSE]
        ELSE
          [hist |-> Put(C.hist, alert_hash, [ts |-> clock, count |-> 1]),
           lc |-> C.lc, ret |-> TRUE]

\* (a should_send_alert that allows every alert)
should_send_alert_nodedup(D, components, status, region, clock) ==
  [hist |-> D.hist, lc |-> D.lc, ret |-> TRUE]

should_send_alert(D, components, status, region, clock) ==
  IF status = "up" THEN [hist |-> D.hist, lc |-> D.lc, ret |-> TRUE]
  ELSE
    LET C == _cleanup_old_alerts(D, clock)
        alert_hash == _generate_alert_hash(region, status, components)
    IN  IF alert_hash \in DOMAIN C.hist /\ clock - C.hist[alert_hash].ts < DEDUP_WINDOW THEN
          [hist |-> Put(C.hist, alert_hash,
                        [ts |-> C.hist[alert_hash].ts, count |-> C.hist[alert_hash].count + 1]),
           lc |-> C.lc, ret |-> FALSE]
        ELSE
          [hist |-> Put(C.hist, alert_hash, [ts |-> clock, count |-> 1]),
           lc |-> C.lc, ret |-> TRUE]

\* should_send_alert when a statement inside it raises.  fault names the place:
\* "sweep" is an exception inside _cleanup_old_alerts, which that method catches
\* itself (line 146) after it has deleted the keys in done and before it sets
\* _last_cleanup; "hash" is one in _generate_alert_hash and "history" one in
\* the lookup of the record, both caught by should_send_alert (line 117).
should_send_alert_raising(D, components, status, region, clock, fault, done) ==
  IF status = "up" THEN [hist |-> D.hist, lc |-> D.lc, ret |-> TRUE]
  ELSE
    LET C == IF fault = "sweep"
             THEN [hist |-> [k \in DOMAIN D.hist \ done |-> D.hist[k]], lc |-> D.lc]
             ELSE _cleanup_old_alerts(D, clock)
    IN  IF fault \in {"hash", "history"} THEN [hist |-> C.hist, lc |-> C.lc, ret |-> TRUE]
        ELSE \* the rest of the call, on the history the sweep left (the sweep is
             \* not due again at _last_cleanup = clock)
             LET R == should_send_alert([hist |-> C.hist, lc |-> clock], components, status,
                                        region, clock)
             IN  [hist |-> R.hist, lc |-> C.lc, ret |-> R.ret]

\* -------------------------------------------------------- status snapshots
\* The dict parse_status returns: kind "error" is error=True, "issues" is
\* has_issues=True, "healthy" neither; NoStatus stands for None.
NoStatus   == [components |-> <<>>,     description |-> "",         region |-> "",    kind |-> "none"]
Healthy    == [components |-> <<>>,     description |-> "",         region |-> "",    kind |-> "healthy"]
IssuesCRM  == [components |-> <<"CRM">>, description |-> "crm down", region |-> ".ru", kind |-> "issues"]
ErrorSnap  == [components |-> <<>>,     description |-> "",         region |-> "",    kind |-> "error"]
\* parse_status or record_check raising instead of returning
Raised     == [components |-> <<>>,     description |-> "",         region |-> "",    kind |-> "raise"]
FetchOutcomes == {Healthy, ErrorSnap, Raised, IssuesCRM}

\* ------------------------------------------------------ notification sink
NumGroups == 2
Groups == 1..NumGroups
AdminChat == 0
NoIds == [g \in Groups |-> Absent]

\* (a format_status_message that takes every healthy status for a recovery)
format_status_message_alert(status_info, is_alert) ==
  IF status_info.kind = "error" THEN "error"
  ELSE IF status_info.kind = "issues" THEN "down"
  ELSE "up"

\* utils/message_formatter.py format_status_message: which of its texts it builds
format_status_message(status_info, is_alert) ==
  IF status_info.kind = "error" THEN "error"
  ELSE IF status_info.kind = "issues" THEN "down"
  ELSE IF is_alert THEN "up"
  ELSE "info"

\* sink is the log of calls made to the bot API; a sent message gets a fresh id.
\* Returns [sink, ret].
_send_or_edit_group_message(sink, group_id, message_id, message, is_new, ok) ==
  IF message_id = 0 \/ is_new THEN
    LET mid == IF ok THEN Len(sink) + 1 ELSE 0
    IN  [sink |-> Append(sink, [group |-> group_id, op |-> "send", kind |-> message,
                                 ok |-> ok, mid |-> mid]),
         ret  |-> mid]
  ELSE
    [sink |-> Append(sink, [group |-> group_id, op |-> "edit", kind |-> message,
                             ok |-> ok, mid |-> message_id]),
     ret  |-> IF ok THEN message_id ELSE 0]

\* bad is the set of groups whose call fails in this broadcast.
\* Returns [sink, ids] with ids the updated dict.
\* (a broadcast that gives up at the first destination that fails)
RECURSIVE SendFrom_abort(_, _, _, _, _, _)
SendFrom_abort(g, acc, message_id_dict, message, is_new, bad) ==
  IF g > NumGroups THEN acc
  ELSE
    LET msg_id == IF is_new \/ message_id_dict[g] = Absent THEN 0 ELSE message_id_dict[g]
        R == _send_or_edit_group_message(acc.sink, g, msg_id, message, is_new, g \notin bad)
        acc2 == [sink |-> R.sink, ids |-> [acc.ids EXCEPT ![g] = R.ret]]
    IN  IF g \in bad THEN acc2
        ELSE SendFrom_abort(g + 1, acc2, message_id_dict, message, is_new, bad)

RECURSIVE SendFrom(_, _, _, _, _, _)
SendFrom(g, acc, message_id_dict, message, is_new, bad) ==
  IF g > NumGroups THEN acc
  ELSE
    LET msg_id == IF is_new \/ message_id_dict[g] = Absent THEN 0 ELSE message_id_dict[g]
        R == _send_or_edit_group_message(acc.sink, g, msg_id, message, is_new, g \notin bad)
    IN  SendFrom(g + 1, [sink |-> R.sink, ids |-> [acc.ids EXCEPT ![g] = R.ret]],
                 message_id_dict, message, is_new, bad)

\* (a _send_to_all_groups that never edits)
_send_to_all_groups_new(sink, message_id_dict, message, is_new, bad) ==
  SendFrom(1, [sink |-> sink, ids |-> NoIds], message_id_dict, message, TRUE, bad)

_send_to_all_groups(sink, message_id_dict, message, is_new, bad) ==
  SendFrom(1, [sink |-> sink, ids |-> NoIds], message_id_dict, message, is_new, bad)

\* bool(dict)
NonEmpty(ids) == \E g \in Groups : ids[g] # Absent

\* ---------------------------------------------------------- StatusMonitor
\* The handlers act on W = [inc, dur, cur, hist, lc, ids, ist, sink, clk, supp]:
\* the tracker and store (inc, dur, cur), the deduplicator (hist, lc),
\* alert_message_ids, issue_start_time, the sink log, the clock, and supp, which
\* records that the deduplicator refused the alert of this iteration.
\* cfg = [issues, recovery, interval] is ALERT_ON_ISSUES, ALERT_ON_RECOVERY and
\* CHECK_INTERVAL.  inp = [fault, bad, pick, pickR, skew] are the iteration's
\* inputs from its environment.
RECENT_INCIDENT_THRESHOLD_HOURS == 24

TrackerOf(W) == [inc |-> W.inc, dur |-> W.dur, cur |-> W.cur]
SetTracker(W, T) == [W EXCEPT !.inc = T.inc, !.dur = T.dur, !.cur = T.cur]
DedupOf(W) == [hist |-> W.hist, lc |-> W.lc]

Broadcast(W, message_id_dict, message, is_new, bad) ==
  LET R == _send_to_all_groups(W.sink, message_id_dict, message, is_new, bad)
  IN  [W EXCEPT !.sink = R.sink, !.ids = R.ids]

\* get_recent_incidents(limit=1): the id of the row returned, 0 for []
get_recent_incident(rows, pick, fault) == IF fault = "recent_read" THEN 0 ELSE pick

\* (a first check that consults the deduplicator before it opens the incident)
_handle_first_check_with_issues_skip(W, current_status, active_incident, inp) ==
  LET D  == should_send_alert(DedupOf(W), current_status.components, "down",
                              current_status.region, W.clk)
      W0 == [W EXCEPT !.hist = D.hist, !.lc = D.lc]
      S  == start_incident(TrackerOf(W0), W0.clk, current_status.description,
                           current_status.region, current_status.components, inp.fault)
      W1 == IF active_incident = 0
            THEN [SetTracker(W0, S) EXCEPT !.ist = W0.clk]
            ELSE [W0 EXCEPT !.ist = W0.inc[active_incident].start_time]
  IN  IF ~D.ret THEN [W0 EXCEPT !.supp = TRUE]
      ELSE Broadcast(W1, NoIds, format_status_message(current_status, TRUE), TRUE, inp.bad)

_handle_first_check_with_issues(W, current_status, active_incident, inp) ==
  LET S  == start_incident(TrackerOf(W), W.clk, current_status.description,
                           current_status.region, current_status.components, inp.fault)
      W1 == IF active_incident = 0
            THEN [SetTracker(W, S) EXCEPT !.ist = W.clk]
            ELSE [W EXCEPT !.ist = W.inc[active_incident].start_time]
      D  == should_send_alert(DedupOf(W1), current_status.components, "down",
                              current_status.region, W1.clk)
      W2 == [W1 EXCEPT !.hist = D.hist, !.lc = D.lc]
  IN  IF ~D.ret THEN [W2 EXCEPT !.supp = TRUE]
      ELSE Broadcast(W2, NoIds, format_status_message(current_status, TRUE), TRUE, inp.bad)

_handle_first_check_recovery(W, current_status, inp) ==
  LET E  == end_incident(TrackerOf(W), W.clk, inp.skew, inp.fault)
      W1 == [SetTracker(W, E) EXCEPT !.clk = E.clk]
  IN  IF E.ret # 0 THEN
        LET B == Broadcast(W1, NoIds, format_status_message(current_status, TRUE), TRUE, inp.bad)
        IN  [B EXCEPT !.ids = NoIds, !.ist = NoTime]
      ELSE W1

_handle_first_check_recent_incident(W, current_status, cfg, inp) ==
  LET r == get_recent_incident(W.inc, inp.pickR, inp.fault)
  IN  IF r # 0 /\ W.inc[r].status = "resolved" THEN
        IF W.inc[r].end_time # NoTime THEN
          IF W.clk - W.inc[r].end_time < RECENT_INCIDENT_THRESHOLD_HOURS * 3600 /\ cfg.recovery
          THEN Broadcast(W, NoIds, format_status_message(current_status, TRUE), TRUE, inp.bad)
          ELSE W
        ELSE W
      ELSE IF cfg.recovery
        THEN Broadcast(W, NoIds, format_status_message(current_status, FALSE), TRUE, inp.bad)
        ELSE W

\* (a recovery that is announced only where the alert was delivered)
_handle_status_change_known(W, previous_status, current_status, cfg, inp) ==
  IF previous_status.kind = "none" THEN W
  ELSE IF previous_status.kind # "issues" /\ current_status.kind = "issues" THEN
    IF cfg.issues THEN
      LET D  == should_send_alert(DedupOf(W), current_status.components, "down",
                                  current_status.region, W.clk)
          W1 == [W EXCEPT !.hist = D.hist, !.lc = D.lc]
          S  == start_incident(TrackerOf(W1), W1.clk, current_status.description,
                               current_status.region, current_status.components, inp.fault)
      IN  IF ~D.ret THEN [SetTracker(W1, S) EXCEPT !.supp = TRUE]
          ELSE Broadcast([SetTracker(W1, S) EXCEPT !.ist = W1.clk], NoIds,
                         format_status_message(current_status, TRUE), TRUE, inp.bad)
    ELSE W
  ELSE IF previous_status.kind = "issues" /\ current_status.kind # "issues" THEN
    LET W1 == IF cfg.recovery /\ NonEmpty(W.ids) THEN
                LET E  == end_incident(TrackerOf(W), W.clk, inp.skew, inp.fault)
                    W0 == [SetTracker(W, E) EXCEPT !.clk = E.clk]
                IN  Broadcast(W0, W0.ids, format_status_message(current_status, TRUE),
                              FALSE, inp.bad)
              ELSE W
    IN  [W1 EXCEPT !.ids = NoIds, !.ist = NoTime]
  ELSE IF previous_status.kind = "issues" /\ current_status.kind = "issues" THEN
    IF NonEmpty(W.ids) /\ W.ist # NoTime
    THEN Broadcast(W, W.ids, format_status_message(current_status, TRUE), FALSE, inp.bad)
    ELSE W
  ELSE W

_handle_status_change(W, previous_status, current_status, cfg, inp) ==
  IF previous_status.kind = "none" THEN W
  ELSE IF previous_status.kind # "issues" /\ current_status.kind = "issues" THEN
    IF cfg.issues THEN
      LET D  == should_send_alert(DedupOf(W), current_status.components, "down",
                                  current_status.region, W.clk)
          W1 == [W EXCEPT !.hist = D.hist, !.lc = D.lc]
          S  == start_incident(TrackerOf(W1), W1.clk, current_status.description,
                               current_status.region, current_status.components, inp.fault)
      IN  IF ~D.ret THEN [SetTracker(W1, S) EXCEPT !.supp = TRUE]
          ELSE Broadcast([SetTracker(W1, S) EXCEPT !.ist = W1.clk], NoIds,
                         format_status_message(current_status, TRUE), TRUE, inp.bad)
    ELSE W
  ELSE IF previous_status.kind = "issues" /\ current_status.kind # "issues" THEN
    LET W1 == IF cfg.recovery THEN
                LET E  == end_incident(TrackerOf(W), W.clk, inp.skew, inp.fault)
                    W0 == [SetTracker(W, E) EXCEPT !.clk = E.clk]
                IN  Broadcast(W0, W0.ids, format_status_message(current_status, TRUE),
                              FALSE, inp.bad)
              ELSE W
    IN  [W1 EXCEPT !.ids = NoIds, !.ist = NoTime]
  ELSE IF previous_status.kind = "issues" /\ current_status.kind = "issues" THEN
    IF NonEmpty(W.ids) /\ W.ist # NoTime
    THEN Broadcast(W, W.ids, format_status_message(current_status, TRUE), FALSE, inp.bad)
    ELSE W
  ELSE W

\* The body of a first check after a successful fetch (_monitor_loop, lines 424-439)
FirstCheck(W, current_status, cfg, inp) ==
  LET A  == get_active_incident(TrackerOf(W), inp.pick, inp.fault)
      W1 == SetTracker(W, A)
  IN  IF current_status.kind = "issues" /\ cfg.issues
        THEN _handle_first_check_with_issues(W1, current_status, A.ret, inp)
      ELSE IF current_status.kind # "issues" /\ A.ret # 0 /\ cfg.recovery
        THEN _handle_first_check_recovery(W1, current_status, inp)
      ELSE IF current_status.kind # "issues"
        THEN _handle_first_check_recent_incident(W1, current_status, cfg, inp)
      ELSE W1

\* What one iteration does with a snapshot that is no error
Iteration(W, first_check, previous_status, current_status, cfg, inp) ==
  IF first_check THEN FirstCheck(W, current_status, cfg, inp)
  ELSE _handle_status_change(W, previous_status, current_status, cfg, inp)

\* (a loop that records the error snapshot as the previous one)
after_error_recorded(previous_status, current_status) == current_status

\* previous_status after an error snapshot: `continue` at line 417 skips the
\* assignments of lines 442 and 446
after_error(previous_status, current_status) == previous_status

\* get_health_status: the report, given what bot.get_me and
\* parser._check_url_availability answered
get_health_status(errors, enabled, telegram_ok, url_available) ==
  [telegram_api |-> telegram_ok, bitrix_url |-> url_available,
   consecutive_errors |-> errors, monitoring_enabled |-> enabled]

\* ------------------------------------------------------------------- state
VARIABLES
  now,                  \* the wall clock
  subscribers,          \* table subscribers, its rows in the order of insertion
  incidents,            \* table incidents as the open connection sees it
  durable,              \* table incidents as committed
  current_incident_id,  \* IncidentTracker.current_incident_id
  alert_history,        \* AlertDeduplicator._alert_history
  last_cleanup,         \* AlertDeduplicator._last_cleanup
  previous_status,      \* StatusMonitor.previous_status
  alert_message_ids,    \* StatusMonitor.alert_message_ids
  issue_start_time,     \* StatusMonitor.issue_start_time
  is_running,           \* StatusMonitor.is_running
  monitoring_enabled,   \* StatusMonitor.monitoring_enabled
  consecutive_errors,   \* StatusMonitor.consecutive_errors
  loops,                \* the _monitor_loop coroutines spawned by start():
                        \*   [pc, first_check, wake]
  config,               \* BotConfig of the running process
  sink,                 \* calls made to the bot API by this process
  polls,                \* what each fetch of this process did (history)
  faults,               \* storage calls that have raised so far
  restarts,             \* process restarts so far
  rows0,                \* rows in the store when this process started
  tasks,                \* concurrent start_incident coroutines
  obs,                  \* the latest API calls made directly, with their results
  nticks                \* clock advances made by the environment

vars == <<now, incidents, durable, current_incident_id, alert_history, last_cleanup,
          previous_status, alert_message_ids, issue_start_time, is_running,
          monitoring_enabled, consecutive_errors, loops, config, sink, polls,
          faults, restarts, rows0, tasks, obs, nticks, subscribers>>

trackerVars == <<incidents, durable, current_incident_id>>
dedupVars   == <<alert_history, last_cleanup>>
monitorVars == <<previous_status, alert_message_ids, issue_start_time, is_running,
                 monitoring_enabled, consecutive_errors, loops, config, sink, polls,
                 restarts, rows0>>

\* ------------------------------------------------------------------ bounds
MaxPolls == 3
MaxErrorRun == 6
MaxLoops == 2
MaxRestarts == 1

\* CHECK_INTERVAL: the least value BotConfig.validate accepts
CheckIntervals == {60}
Configs == [issues : BOOLEAN, recovery : BOOLEAN, interval : CheckIntervals]
DefaultFlags(cfg) == cfg.issues /\ cfg.recovery

StorageFaults == {"start_execute", "start_commit", "end_read", "end_execute",
                  "end_commit", "end_reread", "active_read", "recent_read"}

NoLoop == [first_check |-> TRUE, pc |-> "none", wake |-> 0]
NoObs  == <<>>

\* The state after Bitrix24MonitorBot.__init__ on an empty database
Init ==
  /\ now = 0
  /\ subscribers = <<>>
  /\ incidents = <<>>
  /\ durable = <<>>
  /\ current_incident_id = 0
  /\ alert_history = EmptyMap
  /\ last_cleanup = 0
  /\ previous_status = NoStatus
  /\ alert_message_ids = NoIds
  /\ issue_start_time = NoTime
  /\ is_running = FALSE
  /\ monitoring_enabled = TRUE
  /\ consecutive_errors = 0
  /\ loops = [l \in 1..MaxLoops |-> NoLoop]
  /\ config \in Configs
  /\ sink = <<>>
  /\ polls = <<>>
  /\ faults = 0
  /\ restarts = 0
  /\ rows0 = 0
  /\ tasks = <<>>
  /\ obs = NoObs
  /\ nticks = 0

\* ---------------------------------------------------------------- actions
\* StatusMonitor.start: a no-op while is_running, else a new loop is spawned
Start ==
  /\ \/ /\ is_running
        /\ UNCHANGED <<is_running, loops>>
     \/ /\ ~is_running
        /\ \E l \in 1..MaxLoops :
             /\ loops[l].pc = "none"
             /\ \A k \in 1..(l - 1) : loops[k].pc # "none"
             /\ loops' = [loops EXCEPT ![l] = [first_check |-> TRUE, pc |-> "top", wake |-> 0]]
        /\ is_running' = TRUE
  /\ UNCHANGED <<subscribers, now, trackerVars, dedupVars, previous_status, alert_message_ids,
                 issue_start_time, monitoring_enabled, consecutive_errors, config, sink,
                 polls, faults, restarts, rows0, tasks, obs, nticks>>

\* StatusMonitor.stop (monitor_task is never assigned, so nothing is cancelled)
Stop ==
  /\ is_running
  /\ is_running' = FALSE
  /\ UNCHANGED <<subscribers, now, trackerVars, dedupVars, previous_status, alert_message_ids,
                 issue_start_time, monitoring_enabled, consecutive_errors, loops, config,
                 sink, polls, faults, restarts, rows0, tasks, obs, nticks>>

\* StatusMonitor.toggle_monitoring
ToggleMonitoring ==
  /\ \E enabled \in BOOLEAN : monitoring_enabled' = enabled
  /\ UNCHANGED <<subscribers, now, trackerVars, dedupVars, previous_status, alert_message_ids,
                 issue_start_time, is_running, consecutive_errors, loops, config,
                 sink, polls, faults, restarts, rows0, tasks, obs, nticks>>

\* The fetches made so far
NPolls == Cardinality({i \in 1..Len(polls) : polls[i].kind # "restart"})

\* Every fetch so far has returned an error snapshot
ErrorRun == \A i \in 1..Len(polls) : polls[i].kind = "error"

\* The model stops the loops after MaxPolls fetches; a run of error snapshots
\* from the start of the process goes on to MaxErrorRun of them
Budget == NPolls < MaxPolls \/ (ErrorRun /\ NPolls < MaxErrorRun)

\* (a loop that returns at the loop head after an iteration that failed)
LoopTop_quit(l) ==
  /\ loops[l].pc = "top"
  /\ Budget
  /\ (is_running /\ ~monitoring_enabled) => nticks < MaxTicks
  /\ nticks' = IF is_running /\ ~monitoring_enabled THEN nticks + 1 ELSE nticks
  /\ loops' = [loops EXCEPT ![l] =
       IF ~is_running \/ consecutive_errors > 0 THEN [@ EXCEPT !.pc = "done"]
       ELSE IF ~monitoring_enabled
         THEN [@ EXCEPT !.pc = "sleep_disabled",
                        !.wake = now + MONITORING_CHECK_INTERVAL_DISABLED]
       ELSE IF ~loops[l].first_check
         THEN [@ EXCEPT !.pc = "sleep_pre", !.wake = now + config.interval]
       ELSE [@ EXCEPT !.pc = "fetch"]]
  /\ UNCHANGED <<subscribers, now, trackerVars, dedupVars, previous_status, alert_message_ids,
                 issue_start_time, is_running, monitoring_enabled, consecutive_errors,
                 config, sink, polls, faults, restarts, rows0, tasks, obs>>

\* _monitor_loop, lines 397-404: the loop condition and the choice of a sleep.
\* The model lets the loops begin MaxTicks sleeps of a disabled monitor.
LoopTop(l) ==
  /\ loops[l].pc = "top"
  /\ Budget
  /\ (is_running /\ ~monitoring_enabled) => nticks < MaxTicks
  /\ nticks' = IF is_running /\ ~monitoring_enabled THEN nticks + 1 ELSE nticks
  /\ loops' = [loops EXCEPT ![l] =
       IF ~is_running THEN [@ EXCEPT !.pc = "done"]
       ELSE IF ~monitoring_enabled
         THEN [@ EXCEPT !.pc = "sleep_disabled",
                        !.wake = now + MONITORING_CHECK_INTERVAL_DISABLED]
       ELSE IF ~loops[l].first_check
         THEN [@ EXCEPT !.pc = "sleep_pre", !.wake = now + config.interval]
       ELSE [@ EXCEPT !.pc = "fetch"]]
  /\ UNCHANGED <<subscribers, now, trackerVars, dedupVars, previous_status, alert_message_ids,
                 issue_start_time, is_running, monitoring_enabled, consecutive_errors,
                 config, sink, polls, faults, restarts, rows0, tasks, obs>>

\* An asyncio.sleep of the loop ends (lines 399, 404, 416, 454)
SleepEnd(l) ==
  /\ loops[l].pc \in {"sleep_disabled", "sleep_pre", "sleep_err", "sleep_post"}
  /\ Budget
  /\ now' = Max(now, loops[l].wake)
  /\ loops' = [loops EXCEPT ![l].pc = IF loops[l].pc = "sleep_pre" THEN "fetch" ELSE "top"]
  /\ UNCHANGED <<subscribers, trackerVars, dedupVars, previous_status, alert_message_ids,
                 issue_start_time, is_running, monitoring_enabled, consecutive_errors,
                 config, sink, polls, faults, restarts, rows0, tasks, obs, nticks>>

\* _handle_parse_error: the administrative warning (ADMIN_CHAT_ID is configured)
_handle_parse_error(sink0, errors) ==
  IF errors >= ADMIN_ALERT_ERROR_THRESHOLD
  THEN Append(sink0, [group |-> AdminChat, op |-> "send", kind |-> "admin",
                      ok |-> TRUE, mid |-> Len(sink0) + 1])
  ELSE sink0

World == [inc |-> incidents, dur |-> durable, cur |-> current_incident_id,
          hist |-> alert_history, lc |-> last_cleanup, ids |-> alert_message_ids,
          ist |-> issue_start_time, sink |-> sink, clk |-> now, supp |-> FALSE]

PollEntry(l, current_status, W, active, nfaults) ==
  [loop   |-> l,
   active |-> active,
   first  |-> loops[l].first_check,
   kind   |-> current_status.kind,
   rows   |-> Len(W.inc),
   nact   |-> Cardinality(ActiveIds(W.inc)),
   nsent  |-> Len(W.sink) - Len(sink),
   supp   |-> W.supp,
   faults |-> nfaults]

RestartEntry(nrows, nact, nfaults) ==
  [loop |-> 0, active |-> 0, first |-> FALSE, kind |-> "restart", rows |-> nrows, nact |-> nact,
   nsent |-> 0, supp |-> FALSE, faults |-> nfaults]

SinkFailed == \E i \in 1..Len(sink) : ~sink[i].ok

\* One iteration of _monitor_loop from the fetch (line 408) to the sleep it ends
\* in.  outcomes are the results the fetch may have, storage the database calls
\* that may raise, skews the advances of the clock inside end_incident, bads the
\* sets of destinations whose send or edit may fail.
Poll(l, outcomes, storage, skews, bads) ==
  /\ loops[l].pc = "fetch"
  /\ Budget
  /\ \E current_status \in (IF NPolls < MaxPolls THEN outcomes
                            ELSE {o \in outcomes : o.kind = "error"}),
        fault \in storage \cup {"none"},
        bad \in bads, pick \in Picks(incidents),
        pickR \in (IF incidents = <<>> THEN {0} ELSE LatestAny(incidents)),
        skew \in skews :
       LET inp == [fault |-> fault, bad |-> bad, pick |-> pick, pickR |-> pickR, skew |-> skew]
           W   == Iteration(World, loops[l].first_check, previous_status,
                            current_status, config, inp)
           Wok == Iteration(World, loops[l].first_check, previous_status,
                            current_status, config, [inp EXCEPT !.fault = "none"])
           Wup == Iteration(World, loops[l].first_check, previous_status,
                            current_status, config, [inp EXCEPT !.bad = {}])
       IN
       IF current_status.kind = "raise" THEN
         /\ fault = "none" /\ bad = {} /\ skew = 0
         /\ faults < MaxFaults
         /\ faults' = faults + 1
         /\ consecutive_errors' = consecutive_errors + 1
         /\ loops' = [loops EXCEPT ![l] =
              IF loops[l].first_check THEN [@ EXCEPT !.pc = "top"]
              ELSE [@ EXCEPT !.pc = "sleep_post", !.wake = now + config.interval]]
         /\ polls' = Append(polls, PollEntry(l, current_status, World, 0, faults'))
         /\ UNCHANGED <<now, trackerVars, dedupVars, previous_status, alert_message_ids,
                        issue_start_time, sink>>
       ELSE IF current_status.kind = "error" THEN
         /\ fault = "none" /\ bad = {} /\ skew = 0
         /\ consecutive_errors' = consecutive_errors + 1
         /\ sink' = _handle_parse_error(sink, consecutive_errors + 1)
         /\ loops' = [loops EXCEPT ![l] =
              [@ EXCEPT !.pc = "sleep_err", !.wake = now + config.interval]]
         /\ polls' = Append(polls, PollEntry(l, current_status,
                                             [World EXCEPT !.sink = sink'], 0, faults))
         /\ previous_status' = after_error(previous_status, current_status)
         /\ UNCHANGED <<now, trackerVars, dedupVars, alert_message_ids,
                        issue_start_time, faults>>
       ELSE
         /\ fault # "none" => (faults < MaxFaults /\ W # Wok)
         /\ bad # {} => (~SinkFailed /\ W # Wup)
         /\ faults' = IF fault # "none" THEN faults + 1 ELSE faults
         /\ consecutive_errors' = 0
         /\ incidents' = W.inc
         /\ durable' = W.dur
         /\ current_incident_id' = W.cur
         /\ alert_history' = W.hist
         /\ last_cleanup' = W.lc
         /\ alert_message_ids' = W.ids
         /\ issue_start_time' = W.ist
         /\ sink' = W.sink
         /\ now' = W.clk
         /\ previous_status' = current_status
         /\ loops' = [loops EXCEPT ![l] =
              [pc |-> "sleep_post", first_check |-> FALSE, wake |-> W.clk + config.interval]]
         /\ polls' = Append(polls, PollEntry(l, current_status, W,
              IF loops[l].first_check
              THEN get_active_incident(TrackerOf(World), pick, fault).ret ELSE 0, faults'))
  /\ UNCHANGED <<subscribers, is_running, monitoring_enabled, config, restarts, rows0, tasks, obs, nticks>>

\* The process is killed and started again: Bitrix24MonitorBot.__init__ and
\* _init_async (restore_active_incident) on the committed database.  The alert
\* flags are read from the environment again.
Restart(storage) ==
  /\ restarts < MaxRestarts
  /\ \E issues \in BOOLEAN, recovery \in BOOLEAN,
        fault \in (storage \cap {"active_read"}) \cup {"none"}, pick \in Picks(durable) :
       LET R   == restore_active_incident([inc |-> durable, dur |-> durable, cur |-> 0],
                                          pick, fault)
           Rok == restore_active_incident([inc |-> durable, dur |-> durable, cur |-> 0],
                                          pick, "none")
       IN  /\ fault # "none" => (faults < MaxFaults /\ R # Rok)
           /\ faults' = IF fault # "none" THEN faults + 1 ELSE faults
           /\ config' = [config EXCEPT !.issues = issues, !.recovery = recovery]
           /\ current_incident_id' = R.cur
           /\ polls' = Append(polls, RestartEntry(Len(durable),
                                                  Cardinality(ActiveIds(durable)), faults'))
  /\ incidents' = durable
  /\ alert_history' = EmptyMap
  /\ last_cleanup' = now
  /\ previous_status' = NoStatus
  /\ alert_message_ids' = NoIds
  /\ issue_start_time' = NoTime
  /\ is_running' = FALSE
  /\ monitoring_enabled' = TRUE
  /\ consecutive_errors' = 0
  /\ loops' = [l \in 1..MaxLoops |-> NoLoop]
  /\ sink' = <<>>
  /\ restarts' = restarts + 1
  /\ rows0' = Len(durable)
  /\ UNCHANGED <<subscribers, now, durable, tasks, obs, nticks>>

\* The bot as bot.py runs it: started once, polled, killed and started again
Next ==
  \/ Start
  \/ \E l \in 1..MaxLoops : LoopTop(l)
  \/ \E l \in 1..MaxLoops : SleepEnd(l)
  \/ \E l \in 1..MaxLoops : Poll(l, FetchOutcomes, StorageFaults, {0}, SUBSET Groups)
  \/ Restart(StorageFaults)

Spec == Init /\ [][Next]_vars

\* The same bot while every database call and every fetch returns
SpecNoFaultNext ==
  \/ Start
  \/ \E l \in 1..MaxLoops : LoopTop(l)
  \/ \E l \in 1..MaxLoops : SleepEnd(l)
  \/ \E l \in 1..MaxLoops : Poll(l, {Healthy, ErrorSnap, IssuesCRM}, {}, {0}, SUBSET Groups)
  \/ Restart({})

SpecNoFault == Init /\ [][SpecNoFaultNext]_vars

\* The killed process stays down for RECENT_INCIDENT_THRESHOLD_HOURS before it
\* is started again (the clock of the host goes on)
Downtime ==
  /\ polls # <<>> /\ polls[Len(polls)].kind = "restart"
  /\ ~is_running
  /\ now < RECENT_INCIDENT_THRESHOLD_HOURS * 3600
  /\ now' = now + RECENT_INCIDENT_THRESHOLD_HOURS * 3600
  /\ UNCHANGED <<subscribers, trackerVars, dedupVars, monitorVars, faults, tasks, obs, nticks>>

\* The bot of SpecNoFault with restarts after a long downtime
SpecDowntimeNext ==
  \/ Start
  \/ \E l \in 1..MaxLoops : LoopTop(l)
  \/ \E l \in 1..MaxLoops : SleepEnd(l)
  \/ \E l \in 1..MaxLoops : Poll(l, {Healthy, IssuesCRM}, {}, {0}, {{}})
  \/ Restart({})
  \/ Downtime

SpecDowntime == Init /\ [][SpecDowntimeNext]_vars

\* The monitor started and left running: a fetch, a database call or a send may
\* fail.  The thread's event loop runs the coroutine and every sleep ends.
SpecLiveNext ==
  \/ Start
  \/ \E l \in 1..MaxLoops : LoopTop(l)
  \/ \E l \in 1..MaxLoops : SleepEnd(l)
  \/ \E l \in 1..MaxLoops : Poll(l, FetchOutcomes, StorageFaults, {0}, SUBSET Groups)

SpecLive ==
  /\ Init
  /\ [][SpecLiveNext]_vars
  /\ WF_vars(\E l \in 1..MaxLoops : LoopTop(l))
  /\ WF_vars(\E l \in 1..MaxLoops : SleepEnd(l))

\* ------------------------------------------- the components called directly
MaxTasks == 3

\* obs keeps the latest keep calls
Observe(log, rec, keep) ==
  LET all == Append(log, rec)
  IN  IF Len(all) > keep THEN SubSeq(all, Len(all) - keep + 1, Len(all)) ELSE all

\* The clock advances by one of steps
Tick(steps) ==
  /\ nticks < MaxTicks
  /\ \E d \in steps : now' = now + d
  /\ nticks' = nticks + 1
  /\ UNCHANGED <<subscribers, trackerVars, dedupVars, monitorVars, faults, tasks, obs>>

\* The number of end_incident calls so far that returned an incident
Ends == IF obs = <<>> THEN 0 ELSE obs[Len(obs)].ends

TrackerObs(op, R, fault) ==
  [op |-> op, ret |-> R.ret, fault |-> fault,
   pre_active |-> ActiveIds(incidents), pre_rows |-> Len(incidents),
   pre_cur |-> current_incident_id,
   ends |-> Ends + (IF op = "end" /\ R.ret # 0 THEN 1 ELSE 0)]

Tracker == [inc |-> incidents, dur |-> durable, cur |-> current_incident_id]

\* A call of a tracker operation whose result is R
TrackerCall(op, R, Rok, fault) ==
  /\ fault # "none" => (faults < MaxFaults /\ R # Rok)
  /\ faults' = IF fault # "none" THEN faults + 1 ELSE faults
  /\ incidents' = R.inc
  /\ durable' = R.dur
  /\ current_incident_id' = R.cur
  /\ obs' = Observe(obs, TrackerObs(op, R, fault), 1)

TStart(storage) ==
  /\ Len(incidents) < MaxRows
  /\ \E fault \in (storage \cap {"start_execute", "start_commit"}) \cup {"none"} :
       TrackerCall("start",
                   start_incident(Tracker, now, IssuesCRM.description, IssuesCRM.region,
                                  IssuesCRM.components, fault),
                   start_incident(Tracker, now, IssuesCRM.description, IssuesCRM.region,
                                  IssuesCRM.components, "none"), fault)
  /\ UNCHANGED <<subscribers, now, dedupVars, monitorVars, tasks, nticks>>

TEnd(storage, skews) ==
  /\ \E skew \in skews,
        fault \in (storage \cap {"end_read", "end_execute", "end_commit", "end_reread"})
                  \cup {"none"} :
       LET E == end_incident(Tracker, now, skew, fault)
       IN  /\ TrackerCall("end", E, end_incident(Tracker, now, skew, "none"), fault)
           /\ skew # 0 => E.clk # now
           /\ now' = E.clk
  /\ UNCHANGED <<subscribers, dedupVars, monitorVars, tasks, nticks>>

TGetActive(storage) ==
  /\ \E pick \in Picks(incidents), fault \in (storage \cap {"active_read"}) \cup {"none"} :
       TrackerCall("get_active", get_active_incident(Tracker, pick, fault),
                   get_active_incident(Tracker, pick, "none"), fault)
  /\ UNCHANGED <<subscribers, now, dedupVars, monitorVars, tasks, nticks>>

\* restore_active_incident returns nothing; ret records what it found
TRestore(storage) ==
  /\ \E pick \in Picks(incidents), fault \in (storage \cap {"active_read"}) \cup {"none"} :
       TrackerCall("restore", restore_active_incident(Tracker, pick, fault),
                   restore_active_incident(Tracker, pick, "none"), fault)
  /\ UNCHANGED <<subscribers, now, dedupVars, monitorVars, tasks, nticks>>

\* IncidentTracker.__init__ over a new connection to the same database file
TNew ==
  /\ current_incident_id # 0 \/ incidents # durable
  /\ incidents' = durable
  /\ current_incident_id' = 0
  /\ obs' = Observe(obs, [op |-> "new", ret |-> 0, fault |-> "none",
                          pre_active |-> ActiveIds(incidents), pre_rows |-> Len(incidents),
                          pre_cur |-> current_incident_id, ends |-> Ends], 1)
  /\ UNCHANGED <<subscribers, now, durable, dedupVars, monitorVars, faults, tasks, nticks>>

TrackerSteps == {59, 3541}

\* The components are constructed as bot.py constructs them, the monitor is
\* not started
InitApi == Init /\ DefaultFlags(config)

SpecTrackerNext ==
  \/ TStart({})
  \/ TEnd({}, 0..MaxSkew)
  \/ TGetActive({})
  \/ TRestore({})
  \/ TNew
  \/ Tick(TrackerSteps)

SpecTracker == InitApi /\ [][SpecTrackerNext]_vars

\* One tracker, its operations called one after another
SpecCycleNext ==
  \/ TStart({})
  \/ TEnd({}, {0})
  \/ TGetActive({})
  \/ Tick(TrackerSteps)

SpecCycle == InitApi /\ [][SpecCycleNext]_vars

\* One tracker whose storage may fail, its operations called one after another
TrackerFaultSteps == {59}

SpecTrackerFaultsNext ==
  \/ TStart(StorageFaults)
  \/ TEnd(StorageFaults, {0})
  \/ TGetActive(StorageFaults)
  \/ TRestore(StorageFaults)
  \/ Tick(TrackerFaultSteps)

SpecTrackerFaults == InitApi /\ [][SpecTrackerFaultsNext]_vars

\* ---- the CSV export, on a store whose TEXT columns are spelled out
MaxCsvRows == 2

\* descriptions: plain, with a comma and a newline
CsvDescriptions == {<<"a">>, <<"a", ",", "\n", "b">>}

\* regions: plain, with a comma, with a newline
CsvRegions == {<<"r">>, <<"r", ",", "u">>, <<"r", "\n", "u">>}

\* component lists: none, one, two
CsvComponents == {<<>>, << <<"a">> >>, << <<"a">>, <<"b">> >>}

\* start_incident with the columns as texts
CsvStart ==
  /\ Len(incidents) < MaxCsvRows
  /\ \E description \in CsvDescriptions, region \in CsvRegions, components \in CsvComponents :
       LET R    == start_incident(Tracker, now, description, region, <<>>, "none")
           inc2 == IF Len(R.inc) > Len(incidents)
                   THEN [R.inc EXCEPT ![Len(R.inc)].components = components_text(components)]
                   ELSE R.inc
       IN  /\ incidents' = inc2
           /\ durable' = inc2
           /\ current_incident_id' = R.cur
           /\ obs' = Observe(obs, TrackerObs("start", R, "none"), 1)
  /\ UNCHANGED <<subscribers, now, dedupVars, monitorVars, faults, tasks, nticks>>

CsvExport ==
  /\ \E order \in Descending(incidents) :
       obs' = <<[op |-> "export", order |-> order, ends |-> Ends,
                 out |-> export_to_csv_format(incidents, order)]>>
  /\ UNCHANGED <<subscribers, now, trackerVars, dedupVars, monitorVars, faults, tasks, nticks>>

SpecCsvNext ==
  \/ CsvStart
  \/ TEnd({}, {0})
  \/ Tick({59})
  \/ CsvExport

SpecCsv == InitApi /\ [][SpecCsvNext]_vars

\* ---- SubscriberManager called directly, one call after another
MaxChats == 3
ChatIds == 1..MaxChats

\* The set of chat ids added and not since removed, by the calls made so far
Subscribed == IF obs = <<>> THEN {} ELSE obs[Len(obs)].set

SubsFrame ==
  UNCHANGED <<now, trackerVars, dedupVars, monitorVars, faults, tasks, nticks>>

SAdd ==
  /\ \E chat_id \in ChatIds :
       LET R == add_subscriber(subscribers, chat_id)
       IN  /\ subscribers' = R.rows
           /\ obs' = <<[op |-> "add", chat_id |-> chat_id, ret |-> R.ret,
                        before |-> Subscribed, set |-> Subscribed \cup {chat_id}]>>
  /\ SubsFrame

SRemove ==
  /\ \E chat_id \in ChatIds :
       LET R == remove_subscriber(subscribers, chat_id)
       IN  /\ subscribers' = R.rows
           /\ obs' = <<[op |-> "remove", chat_id |-> chat_id, ret |-> R.ret,
                        before |-> Subscribed, set |-> Subscribed \ {chat_id}]>>
  /\ SubsFrame

\* is_subscribed, get_count and get_all, called together
SRead ==
  /\ \E chat_id \in ChatIds :
       obs' = <<[op |-> "read", chat_id |-> chat_id,
                 ret |-> [is_subscribed |-> is_subscribed(subscribers, chat_id),
                          get_count     |-> get_count(subscribers),
                          get_all       |-> get_all(subscribers)],
                 before |-> Subscribed, set |-> Subscribed]>>
  /\ UNCHANGED subscribers
  /\ SubsFrame

SpecSubsNext ==
  \/ SAdd
  \/ SRemove
  \/ SRead

SpecSubs == InitApi /\ [][SpecSubsNext]_vars

\* N start_incident coroutines of one tracker on the event loop (asyncio.gather).
\* A coroutine runs from one await to the next without interruption: from the
\* call to `await self.db.execute`, from there to `await self.db.commit`, and
\* from there to its return.  tasks[t] = [pc, rowid, ret].
CSpawn ==
  /\ Len(tasks) < MaxTasks
  /\ tasks' = Append(tasks, [ret |-> 0, pc |-> "call", rowid |-> 0])
  /\ UNCHANGED <<subscribers, now, trackerVars, dedupVars, monitorVars, faults, obs, nticks>>

\* lines 42-47: the test of current_incident_id, then the INSERT is submitted
CBegin(t) ==
  /\ tasks[t].pc = "call"
  /\ tasks' = [tasks EXCEPT ![t] =
       IF current_incident_id = 0 THEN [@ EXCEPT !.pc = "execute"]
       ELSE [@ EXCEPT !.pc = "done", !.ret = current_incident_id]]
  /\ UNCHANGED <<subscribers, now, trackerVars, dedupVars, monitorVars, faults, obs, nticks>>

\* lines 47-53: the INSERT has run (cursor.lastrowid is its row), commit is submitted
CExecute(t) ==
  /\ tasks[t].pc = "execute"
  /\ incidents' = Append(incidents, NewRow(now, IssuesCRM.description, IssuesCRM.region,
                                           IssuesCRM.components))
  /\ tasks' = [tasks EXCEPT ![t] = [@ EXCEPT !.pc = "commit", !.rowid = Len(incidents) + 1]]
  /\ UNCHANGED <<subscribers, now, durable, current_incident_id, dedupVars, monitorVars, faults, obs,
                 nticks>>

\* lines 53-57: the commit has run; the pointer is set and returned
CCommit(t) ==
  /\ tasks[t].pc = "commit"
  /\ durable' = incidents
  /\ current_incident_id' = tasks[t].rowid
  /\ tasks' = [tasks EXCEPT ![t] = [@ EXCEPT !.pc = "done", !.ret = tasks[t].rowid]]
  /\ UNCHANGED <<subscribers, now, incidents, dedupVars, monitorVars, faults, obs, nticks>>

SpecConcNext ==
  \/ CSpawn
  \/ \E t \in 1..Len(tasks) : CBegin(t)
  \/ \E t \in 1..Len(tasks) : CExecute(t)
  \/ \E t \in 1..Len(tasks) : CCommit(t)
  \/ Tick({1})

SpecConc == InitApi /\ [][SpecConcNext]_vars

\* N add_subscriber coroutines of one manager on the event loop
\* (asyncio.gather), all on the one connection of Database.  A coroutine runs
\* from one await to the next without interruption: from the call to
\* `await self.db.fetchone`, from there to `await self.db.execute`, from there
\* to `await self.db.commit`, and from there to its return.
\* tasks[t] = [pc, chat_id, ret, raised].
GatherIds == 1..2

ASpawn ==
  /\ Len(tasks) < MaxTasks
  /\ \E chat_id \in GatherIds :
       tasks' = Append(tasks, [pc |-> "call", chat_id |-> chat_id, ret |-> FALSE,
                               raised |-> FALSE])
  /\ UNCHANGED <<subscribers, now, trackerVars, dedupVars, monitorVars, faults, obs, nticks>>

\* lines 37-44: the SELECT has run; `if existing: return False`
ASelect(t) ==
  /\ tasks[t].pc = "call"
  /\ tasks' = [tasks EXCEPT ![t] =
       IF Existing(subscribers, tasks[t].chat_id) THEN [@ EXCEPT !.pc = "done"]
       ELSE [@ EXCEPT !.pc = "execute"]]
  /\ UNCHANGED <<subscribers, now, trackerVars, dedupVars, monitorVars, faults, obs, nticks>>

\* lines 46-49 and 53-55: the INSERT has run, or it raised and `except
\* Exception` returned False
AInsert(t) ==
  /\ tasks[t].pc = "execute"
  /\ LET R == insert_subscriber(subscribers, tasks[t].chat_id)
     IN  /\ subscribers' = R.rows
         /\ tasks' = [tasks EXCEPT ![t] =
              IF R.ok THEN [@ EXCEPT !.pc = "commit"]
              ELSE [@ EXCEPT !.pc = "done", !.raised = TRUE]]
  /\ UNCHANGED <<now, trackerVars, dedupVars, monitorVars, faults, obs, nticks>>

\* lines 50-52: the commit has run; return True
ACommit(t) ==
  /\ tasks[t].pc = "commit"
  /\ tasks' = [tasks EXCEPT ![t] = [@ EXCEPT !.pc = "done", !.ret = TRUE]]
  /\ UNCHANGED <<subscribers, now, trackerVars, dedupVars, monitorVars, faults, obs, nticks>>

SpecGatherNext ==
  \/ ASpawn
  \/ \E t \in 1..Len(tasks) : ASelect(t)
  \/ \E t \in 1..Len(tasks) : AInsert(t)
  \/ \E t \in 1..Len(tasks) : ACommit(t)

SpecGather == InitApi /\ [][SpecGatherNext]_vars

\* The /health command: get_health_status is called at any moment
GetHealthStatus ==
  /\ \E telegram_ok \in BOOLEAN, url_available \in BOOLEAN :
       obs' = <<get_health_status(consecutive_errors, monitoring_enabled,
                                  telegram_ok, url_available)>>
  /\ UNCHANGED <<subscribers, now, trackerVars, dedupVars, monitorVars, faults, tasks, nticks>>

\* The monitor while the fetch may fail or raise, with health reports requested
\* in between; every database call and every send succeeds
SpecHealthNext ==
  \/ Start
  \/ \E l \in 1..MaxLoops : LoopTop(l)
  \/ \E l \in 1..MaxLoops : SleepEnd(l)
  \/ \E l \in 1..MaxLoops : Poll(l, FetchOutcomes, {}, {0}, {{}})
  \/ GetHealthStatus

SpecHealth == InitApi /\ [][SpecHealthNext]_vars

\* AlertDeduplicator called directly
DedupRegions == {".ru"}
DedupComponents == {<<"CRM">>, <<"Mail", "CRM">>}
DedupSteps == {10, 290, 300}
MaxCalls == 3

\* The down alerts the history has counted
RECURSIVE TotalCount(_)
TotalCount(h) ==
  IF DOMAIN h = {} THEN 0
  ELSE LET k == CHOOSE k \in DOMAIN h : TRUE
       IN  h[k].count + TotalCount([j \in DOMAIN h \ {k} |-> h[j]])

DCall ==
  /\ \E components \in DedupComponents, status \in {"up", "down"}, region \in DedupRegions :
       LET D == should_send_alert([hist |-> alert_history, lc |-> last_cleanup],
                                  components, status, region, now)
       IN  /\ status = "down" => TotalCount(alert_history) < MaxCalls
           /\ alert_history' = D.hist
           /\ last_cleanup' = D.lc
           /\ obs' = Observe(obs, [op |-> "should_send_alert", components |-> components,
                                   status |-> status, region |-> region, ret |-> D.ret,
                                   at |-> now, before |-> alert_history],
                             2)
  /\ UNCHANGED <<subscribers, now, trackerVars, monitorVars, faults, tasks, nticks>>

SpecDedupNext ==
  \/ DCall
  \/ Tick(DedupSteps)

SpecDedup == InitApi /\ [][SpecDedupNext]_vars

\* AlertDeduplicator called while a statement inside the call may raise
DedupFaults == {"sweep", "hash", "history", "none"}

\* The keys a sweep at this moment deletes
Stale ==
  IF now - last_cleanup < CLEANUP_INTERVAL THEN {}
  ELSE {k \in DOMAIN alert_history : alert_history[k].ts < now - DEDUP_WINDOW * 2}

DCallRaising ==
  /\ \E components \in DedupComponents, status \in {"up", "down"}, region \in DedupRegions,
        fault \in DedupFaults, done \in SUBSET Stale :
       LET D == should_send_alert_raising([hist |-> alert_history, lc |-> last_cleanup],
                                          components, status, region, now, fault, done)
       IN  /\ status = "down" => TotalCount(alert_history) < MaxCalls
           /\ status = "up" => fault = "none"
           /\ fault # "sweep" => done = {}
           /\ alert_history' = D.hist
           /\ last_cleanup' = D.lc
           /\ obs' = <<[op |-> "should_send_alert", components |-> components,
                        status |-> status, region |-> region, ret |-> D.ret,
                        at |-> now, before |-> alert_history, fault |-> fault]>>
  /\ UNCHANGED <<subscribers, now, trackerVars, monitorVars, faults, tasks, nticks>>

SpecDedupRaisingNext ==
  \/ DCallRaising
  \/ Tick({10, DEDUP_WINDOW})

SpecDedupRaising == InitApi /\ [][SpecDedupRaisingNext]_vars

\* AlertDeduplicator asked about down alerts of several regions and component
\* lists, the same components also in another order (the lists
\* _parse_components builds have no name twice)
HashRegions == {".ru", ".eu"}
HashComponents == {<<"CRM">>, <<"Mail">>, <<"CRM", "Mail">>, <<"Mail", "CRM">>}

HCall ==
  /\ TotalCount(alert_history) < MaxCalls
  /\ \E components \in HashComponents, region \in HashRegions :
       LET D == should_send_alert([hist |-> alert_history, lc |-> last_cleanup],
                                  components, "down", region, now)
       IN  /\ alert_history' = D.hist
           /\ last_cleanup' = D.lc
           /\ obs' = Observe(obs, [op |-> "should_send_alert", components |-> components,
                                   status |-> "down", region |-> region, ret |-> D.ret,
                                   at |-> now, before |-> alert_history],
                             2)
  /\ UNCHANGED <<subscribers, now, trackerVars, monitorVars, faults, tasks, nticks>>

SpecHashNext ==
  \/ HCall
  \/ Tick({10})

SpecHash == InitApi /\ [][SpecHashNext]_vars

\* The monitor with its controls: start() and stop() called at any moment, so
\* that a second loop may be spawned in the same process; every database call,
\* fetch and send succeeds
SpecCtlNext ==
  \/ Start
  \/ Stop
  \/ \E l \in 1..MaxLoops : LoopTop(l)
  \/ \E l \in 1..MaxLoops : SleepEnd(l)
  \/ \E l \in 1..MaxLoops : Poll(l, {Healthy, IssuesCRM}, {}, {0}, {{}})

SpecCtl == InitApi /\ [][SpecCtlNext]_vars

\* The monitor started once, polled, and switched off and on by the /monitoring
\* command
SpecToggleNext ==
  \/ Start
  \/ ToggleMonitoring
  \/ \E l \in 1..MaxLoops : LoopTop(l)
  \/ \E l \in 1..MaxLoops : SleepEnd(l)
  \/ \E l \in 1..MaxLoops : Poll(l, {Healthy, IssuesCRM}, {}, {0}, {{}})

SpecToggle == InitApi /\ [][SpecToggleNext]_vars

\* One loop, each step a whole iteration of _monitor_loop past its sleeps: the
\* sleeps of lines 454 and 404 (none before the first check), the fetch and
\* the handling of the snapshot.  MaxIterations iterations are made.
MaxIterations == 4

Iterate(outcomes, bads) ==
  /\ is_running /\ monitoring_enabled
  /\ loops[1].pc \in {"top", "sleep_post"}
  /\ Len(polls) < MaxIterations
  /\ \E current_status \in outcomes, bad \in bads :
       LET inp == [fault |-> "none", bad |-> bad, pick |-> 0, pickR |-> 0, skew |-> 0]
           W0  == [World EXCEPT !.clk = IF loops[1].first_check THEN now
                                        ELSE now + 2 * config.interval]
           W   == Iteration(W0, loops[1].first_check, previous_status,
                            current_status, config, inp)
           Wup == Iteration(W0, loops[1].first_check, previous_status,
                            current_status, config, [inp EXCEPT !.bad = {}])
       IN  /\ bad # {} => W # Wup
           /\ consecutive_errors' = 0
           /\ incidents' = W.inc
           /\ durable' = W.dur
           /\ current_incident_id' = W.cur
           /\ alert_history' = W.hist
           /\ last_cleanup' = W.lc
           /\ alert_message_ids' = W.ids
           /\ issue_start_time' = W.ist
           /\ sink' = W.sink
           /\ now' = W.clk
           /\ previous_status' = current_status
           /\ loops' = [loops EXCEPT ![1] =
                [pc |-> "sleep_post", first_check |-> FALSE, wake |-> W.clk + config.interval]]
           /\ polls' = Append(polls, PollEntry(1, current_status, W, 0, faults))
  /\ UNCHANGED <<subscribers, is_running, monitoring_enabled, config, faults, restarts,
                 rows0, tasks, obs, nticks>>

SpecIterateNext ==
  \/ Start
  \/ Iterate({Healthy, IssuesCRM}, SUBSET Groups)

SpecIterate == InitApi /\ [][SpecIterateNext]_vars

\* An iteration that fetched issues and opened an incident raises after
\* start_incident: before its broadcast (format_status_message) or after it
\* (metrics_collector.record_alert).  The handler is left with the incident
\* stored and the deduplicator updated, and the except clause of lines 448-450
\* skips `self.previous_status = current_status` and `first_check = False`.
PollInterrupted(l) ==
  /\ loops[l].pc = "fetch"
  /\ NPolls < MaxPolls
  /\ faults < MaxFaults
  /\ \E sent \in BOOLEAN :
       LET inp == [fault |-> "none", skew |-> 0, pick |-> 0, bad |-> {}, pickR |-> 0]
           W   == Iteration(World, loops[l].first_check, previous_status, IssuesCRM,
                            config, inp)
           W1  == IF sent THEN W ELSE [W EXCEPT !.sink = sink, !.ids = alert_message_ids]
       IN  /\ Len(W.inc) > Len(incidents)
           /\ W.sink # sink
           /\ incidents' = W1.inc
           /\ durable' = W1.dur
           /\ current_incident_id' = W1.cur
           /\ alert_history' = W1.hist
           /\ last_cleanup' = W1.lc
           /\ issue_start_time' = W1.ist
           /\ alert_message_ids' = W1.ids
           /\ sink' = W1.sink
           /\ polls' = Append(polls, PollEntry(l, Raised, W1, 0, faults + 1))
  /\ faults' = faults + 1
  /\ consecutive_errors' = consecutive_errors + 1
  /\ loops' = [loops EXCEPT ![l] =
       IF loops[l].first_check THEN [@ EXCEPT !.pc = "top"]
       ELSE [@ EXCEPT !.pc = "sleep_post", !.wake = now + config.interval]]
  /\ UNCHANGED <<subscribers, now, previous_status, is_running,
                 monitoring_enabled, config, restarts, rows0, tasks, obs, nticks>>

\* The monitor started and never stopped or disabled, both alert flags set,
\* every database call and every send returning; the loop goes on and its
\* sleeps end
SpecHealNext ==
  \/ Start
  \/ \E l \in 1..MaxLoops : LoopTop(l)
  \/ \E l \in 1..MaxLoops : SleepEnd(l)
  \/ \E l \in 1..MaxLoops : Poll(l, {Healthy, ErrorSnap, IssuesCRM}, {}, {0}, {{}})
  \/ \E l \in 1..MaxLoops : PollInterrupted(l)

SpecHeal ==
  /\ InitApi
  /\ [][SpecHealNext]_vars
  /\ WF_vars(\E l \in 1..MaxLoops : LoopTop(l))
  /\ WF_vars(\E l \in 1..MaxLoops : SleepEnd(l))

\* -------------------------------------------------------------- properties
NActive == Cardinality(ActiveIds(incidents))

\* The polls of the running process: those after the last restart
LastRestart ==
  LET R == {i \in 1..Len(polls) : polls[i].kind = "restart"}
  IN  IF R = {} THEN 0 ELSE CHOOSE i \in R : \A j \in R : j <= i
Run == SubSeq(polls, LastRestart + 1, Len(polls))
Kinds(seq) == [i \in 1..Len(seq) |-> seq[i].kind]
Count(S) == Cardinality(S)
SinkOf(g, op, kind) ==
  {i \in 1..Len(sink) : sink[i].group = g /\ sink[i].op = op /\ sink[i].kind = kind}

C4_RestartAdoptsActive ==
  LET r == LastRestart
  IN  (/\ r >= 1 /\ Len(Run) = 1
       /\ polls[r].nact = 1
       /\ Run[1].kind = "issues"
       /\ Run[1].faults = polls[r].faults)
      => /\ Run[1].active \in ActiveIds(incidents)
         /\ current_incident_id = Run[1].active
         /\ Run[1].rows = polls[r].rows
         /\ NActive = 1

C4_Witness ==
  /\ LastRestart >= 1 /\ Len(Run) = 1
  /\ polls[LastRestart].nact = 1
  /\ Run[1].kind = "issues" /\ Run[1].first
  /\ Run[1].active = current_incident_id /\ current_incident_id # 0
  /\ Len(incidents) = polls[LastRestart].rows

\* C6: on an empty store, with both alert flags on, every database call
\* returning and no send failing, the polls issues {CRM} in .ru, the same snapshot again inside
\* the dedup window, then healthy, send each destination exactly one new "down"
\* message and exactly one recovery message, and leave exactly one incident,
\* resolved, with components CRM.
C6_OutageScenario ==
  (/\ rows0 = 0 /\ DefaultFlags(config) /\ ~SinkFailed
   /\ Kinds(Run) = <<"issues", "issues", "healthy">>)
  => /\ \A g \in Groups : /\ Count(SinkOf(g, "send", "down")) = 1
                          /\ Count(SinkOf(g, "send", "up") \cup SinkOf(g, "edit", "up")) = 1
     /\ Len(incidents) = 1
     /\ incidents[1].status = "resolved"
     /\ incidents[1].components = "CRM"

C6_Witness ==
  /\ rows0 = 0 /\ DefaultFlags(config) /\ ~SinkFailed
  /\ Kinds(Run) = <<"issues", "issues", "healthy">>
  /\ Len(sink) = 3 * NumGroups
  /\ now - incidents[1].start_time < DEDUP_WINDOW

C8_SuppressedStillOpens ==
  \A i \in 2..Len(polls) :
    (polls[i].supp /\ polls[i].faults = 0)
    => /\ polls[i].nsent = 0
       /\ polls[i].nact >= 1
       /\ polls[i - 1].nact = 0 =>
            (polls[i].rows = polls[i - 1].rows + 1 /\ polls[i].nact = 1)

\* a first check that opened an incident while its alert was refused
C8_Witness ==
  \E i \in 2..Len(polls) :
    /\ polls[i].supp /\ polls[i].first
    /\ polls[i - 1].nact = 0
    /\ polls[i].rows = polls[i - 1].rows + 1

\* a healthy->degraded transition that opened an incident while its alert was
\* refused
C8_WitnessTransition ==
  \E i \in 2..Len(polls) :
    /\ polls[i].supp /\ ~polls[i].first
    /\ polls[i].rows = polls[i - 1].rows + 1

\* C3: when all of N concurrently started start_incident calls on an empty
\* store have returned, the store holds exactly one row and every call has
\* returned its id.
C3_ConcurrentStartOnce ==
  (/\ Len(tasks) >= 2
   /\ \A t \in 1..Len(tasks) : tasks[t].pc = "done")
  => /\ Len(incidents) = 1
     /\ \A t \in 1..Len(tasks) : tasks[t].ret = 1

\* C5: of two consecutive should_send_alert calls with the same region and
\* components less than DEDUP_WINDOW apart, with status down and no record of
\* the fingerprint before the first, the first returns true and the second
\* false; with status up both return true and neither changes the history.
C5_DownOnceUpAlways ==
  Len(obs) >= 2 =>
    LET a == obs[Len(obs) - 1]
        b == obs[Len(obs)]
    IN  (/\ a.op = "should_send_alert" /\ b.op = "should_send_alert"
         /\ a.region = b.region /\ a.components = b.components
         /\ a.status = b.status
         /\ b.at - a.at < DEDUP_WINDOW)
        => /\ (a.status = "down" /\ _generate_alert_hash(a.region, "down", a.components)
                                      \notin DOMAIN a.before)
                => (a.ret /\ ~b.ret)
           /\ a.status = "up"
                => (a.ret /\ b.ret /\ b.before = a.before /\ alert_history = b.before)

\* two down calls 10 s apart on a fresh deduplicator
C5_Witness ==
  /\ Len(obs) = 2
  /\ obs[1].status = "down" /\ obs[2].status = "down"
  /\ obs[1].region = obs[2].region /\ obs[1].components = obs[2].components
  /\ obs[1].before = EmptyMap
  /\ obs[2].at = obs[1].at + 10
  /\ obs[1].ret /\ ~obs[2].ret

\* two up calls while the history holds a record
C5_WitnessUp ==
  /\ Len(obs) = 2
  /\ obs[1].status = "up" /\ obs[2].status = "up"
  /\ obs[1].region = obs[2].region /\ obs[1].components = obs[2].components
  /\ obs[1].before # EmptyMap
  /\ obs[1].ret /\ obs[2].ret

\* C9: the duration stored by a successful end_incident is end_time - start_time
\* of the row it resolved, in the format HH:MM:SS.
C9_DurationIsEndMinusStart ==
  (Len(obs) = 1 /\ obs[1].op = "end" /\ obs[1].ret # 0)
  => LET row == incidents[obs[1].ret]
     IN  row.duration = format_duration(row.start_time, row.end_time)

\* C10: a start_incident that does not fail returns the id of an active
\* incident and adds no row whenever the store held an active incident before
\* the call, whatever the tracker's pointer was; otherwise it adds exactly one
\* row, with status active, and returns its id.
C10_StartIsIdempotent ==
  (Len(obs) = 1 /\ obs[1].op = "start" /\ obs[1].fault = "none")
  => IF obs[1].pre_active # {}
     THEN /\ Len(incidents) = obs[1].pre_rows
          /\ obs[1].ret \in obs[1].pre_active
     ELSE /\ Len(incidents) = obs[1].pre_rows + 1
          /\ incidents[Len(incidents)].status = "active"
          /\ obs[1].ret = Len(incidents)

\* C11: an end_incident that does not fail resolves an active incident of the
\* store and returns its id whenever the store held one before the call,
\* whatever the tracker's pointer was, and returns None only when the store
\* held no active incident.
C11_EndRederivesActive ==
  (Len(obs) = 1 /\ obs[1].op = "end" /\ obs[1].fault = "none")
  => IF obs[1].pre_active # {}
     THEN /\ obs[1].ret \in obs[1].pre_active
          /\ incidents[obs[1].ret].status = "resolved"
     ELSE obs[1].ret = 0

\* C12: on one tracker whose operations are called one after another, after
\* every end_incident that ended an incident get_active_incident returns None,
\* the incident ended is in get_recent_incidents with status resolved and a
\* duration, and the store holds as many rows as incidents were ended.
C12_CyclesLeaveKRows ==
  (Len(obs) = 1 /\ obs[1].op = "end" /\ obs[1].ret # 0)
  => /\ \A pick \in Picks(incidents) : get_active_incident(Tracker, pick, "none").ret = 0
     /\ \A S \in get_recent_incidents(incidents, 10) :
          /\ obs[1].ret \in S
          /\ incidents[obs[1].ret].status = "resolved"
          /\ incidents[obs[1].ret].duration \notin {NULL, ""}
     /\ get_recent_incidents(incidents, 10) # {}
     /\ get_incidents_count(incidents) = obs[1].ends

\* the third cycle has just ended
C12_Witness ==
  /\ Len(obs) = 1 /\ obs[1].op = "end" /\ obs[1].ret = 3
  /\ obs[1].ends = 3
  /\ get_incidents_count(incidents) = 3

\* C13: the export holds the header and one line per incident of the store,
\* and every line splits at its commas into as many fields as the header, 7.
C13_CsvOneRowPerIncident ==
  (Len(obs) = 1 /\ obs[1].op = "export")
  => LET lines == Lines(obs[1].out)
     IN  /\ Len(Fields(csv_header)) = 7
         /\ Len(lines) = 1 + get_incidents_count(incidents)
         /\ \A k \in 1..Len(lines) : Len(Fields(lines[k])) = Len(Fields(csv_header))

\* The loops that have been spawned and have not returned
Live == {l \in 1..MaxLoops : loops[l].pc \notin {"done", "none"}}

\* A loop in one of these positions is inside an asyncio.sleep
Sleeps == {"sleep_disabled", "sleep_pre", "sleep_err", "sleep_post"}

\* C14: while monitoring_enabled is false no loop comes to a fetch, wherever it
\* was when monitoring was switched off (a loop already at the fetch, past the
\* test of the flag, is not counted).
C14_NoFetchWhileDisabled ==
  [][\A l \in 1..MaxLoops :
       (~monitoring_enabled /\ ~monitoring_enabled' /\ loops[l].pc # "fetch")
       => loops'[l].pc # "fetch"]_vars

\* C15: at most one poll loop is executing at any time.
C15_AtMostOneLoop == Cardinality(Live) <= 1

\* C16: a loop that is in a sleep while is_running is false does not go on to a
\* fetch when the sleep ends.
C16_NoFetchAfterStop ==
  [][\A l \in 1..MaxLoops :
       (~is_running /\ ~is_running' /\ loops[l].pc \in Sleeps /\ loops'[l].pc # loops[l].pc)
       => loops'[l].pc # "fetch"]_vars

\* The calls to the bot API made by the latest poll
LastSent ==
  LET n == Len(polls)
  IN  IF n = 0 THEN <<>> ELSE SubSeq(sink, Len(sink) - polls[n].nsent + 1, Len(sink))

\* C17: a poll that broadcasts makes exactly one send or edit for every
\* destination, whether or not calls to other destinations fail, and a failing
\* call does not end the iteration: it completes as a successful check.
C17_BroadcastReachesAll ==
  (Len(polls) > 0 /\ polls[Len(polls)].kind \in {"issues", "healthy"})
  => /\ LastSent # <<>> =>
          \A g \in Groups :
            Cardinality({k \in 1..Len(LastSent) : LastSent[k].group = g}) = 1
     /\ (\E k \in 1..Len(LastSent) : ~LastSent[k].ok)
          => /\ previous_status.kind = polls[Len(polls)].kind
             /\ consecutive_errors = 0
             /\ \A l \in 1..MaxLoops : loops[l].pc # "done"

\* the call to the first destination failed and the second was still made
C17_Witness ==
  /\ Len(polls) > 0 /\ polls[Len(polls)].kind = "issues"
  /\ Len(LastSent) = NumGroups
  /\ LastSent[1].group = 1 /\ ~LastSent[1].ok
  /\ LastSent[2].group = 2 /\ LastSent[2].ok

\* The latest poll met a failure: the fetch raised or returned an error
\* snapshot, a database call raised, or a send or edit failed
LastFailed ==
  LET n == Len(polls)
  IN  /\ n > 0
      /\ \/ polls[n].kind \in {"error", "raise"}
         \/ polls[n].faults > (IF n = 1 THEN 0 ELSE polls[n - 1].faults)
         \/ \E k \in 1..Len(LastSent) : ~LastSent[k].ok

\* A loop is at the call of parse_status (line 408)
AtFetch == \E l \in 1..MaxLoops : loops[l].pc = "fetch"

\* C18: while the monitor stays running and enabled, after a poll that met a
\* failure the loop comes to another fetch (as long as the model lets the
\* loops go on).
C18_LoopSurvivesFailure ==
  \A n \in 1..(MaxErrorRun - 1) : (NPolls = n /\ LastFailed /\ Budget) ~> AtFetch

\* an error snapshot, then a poll in which a database call raised, and the
\* loop at its third fetch
C18_Witness ==
  /\ Len(polls) = 2
  /\ polls[1].kind = "error"
  /\ polls[2].kind = "issues" /\ polls[2].faults > polls[1].faults
  /\ is_running /\ monitoring_enabled
  /\ AtFetch

\* The administrative warnings sent
AdminWarnings == SinkOf(AdminChat, "send", "admin")

\* C19: in a run of error snapshots the administrative warning is sent once,
\* at the poll where consecutive_errors reaches ADMIN_ALERT_ERROR_THRESHOLD,
\* and not again at later polls of the run.
C19_AdminWarnedOnce ==
  (ErrorRun /\ polls # <<>>)
  => Count(AdminWarnings) = IF consecutive_errors >= ADMIN_ALERT_ERROR_THRESHOLD THEN 1 ELSE 0

\* C20: add_subscriber returns true iff the id was not subscribed, and
\* remove_subscriber iff it was; after any sequence of calls is_subscribed,
\* get_count and get_all answer for exactly the ids added and not since
\* removed.
C20_BehavesAsSet ==
  Len(obs) = 1 =>
    LET o == obs[1]
    IN  /\ o.op = "add" => o.ret = (o.chat_id \notin o.before)
        /\ o.op = "remove" => o.ret = (o.chat_id \in o.before)
        /\ o.op = "read" =>
             /\ o.ret.is_subscribed = (o.chat_id \in o.set)
             /\ o.ret.get_count = Cardinality(o.set)
             /\ o.ret.get_all = o.set
        /\ get_all(subscribers) = o.set
        /\ get_count(subscribers) = Cardinality(o.set)
        /\ \A c \in ChatIds : is_subscribed(subscribers, c) = (c \in o.set)

\* a duplicate add: refused, with two ids subscribed before and after
C20_Witness ==
  /\ Len(obs) = 1 /\ obs[1].op = "add" /\ ~obs[1].ret
  /\ Cardinality(obs[1].before) = 2
  /\ get_count(subscribers) = 2

\* C21: add_subscriber calls interleaved at their awaits lose no subscriber and
\* create no duplicate: once every call has returned, table subscribers holds
\* each chat id passed exactly once, and for each chat id exactly one of the
\* calls that passed it returned True.
C21_GatherAddsEachOnce ==
  (\A t \in 1..Len(tasks) : tasks[t].pc = "done")
  => LET passed == {tasks[t].chat_id : t \in 1..Len(tasks)}
     IN  /\ get_all(subscribers) = passed
         /\ get_count(subscribers) = Cardinality(passed)
         /\ \A c \in passed :
              Cardinality({t \in 1..Len(tasks) : tasks[t].chat_id = c /\ tasks[t].ret}) = 1

\* three calls have returned, two of them for one chat id, and the later
\* INSERT of the two was refused by the key
C21_Witness ==
  /\ Len(tasks) = MaxTasks
  /\ \A t \in 1..Len(tasks) : tasks[t].pc = "done"
  /\ \E t \in 1..Len(tasks) : tasks[t].raised
  /\ get_count(subscribers) = 2

\* The poll the monitor made last, and what it found: the kind of the last
\* snapshot fetched before it in this process ("none" before the first), and
\* the active incidents and rows of the store before it
Polled == Run # <<>>
LastPoll == polls[Len(polls)]
Successes == {j \in 1..(Len(Run) - 1) : Run[j].kind \in {"issues", "healthy"}}
PrevKind ==
  IF Successes = {} THEN "none"
  ELSE Run[CHOOSE j \in Successes : \A k \in Successes : k <= j].kind
ActiveBefore == IF Len(polls) = 1 THEN 0 ELSE polls[Len(polls) - 1].nact
RowsBefore == IF Len(polls) = 1 THEN 0 ELSE polls[Len(polls) - 1].rows

\* C22: a poll that fetches issues while the store has no active incident, as
\* the first check of the process or after a healthy snapshot, adds one active
\* incident to the store, whether ALERT_ON_ISSUES is set or not.
C22_IssuesOpenIncident ==
  (/\ Polled /\ LastPoll.kind = "issues"
   /\ ActiveBefore = 0
   /\ LastPoll.first \/ PrevKind = "healthy")
  => /\ LastPoll.nact = 1
     /\ LastPoll.rows = RowsBefore + 1

\* C23: after a poll that fetches a healthy snapshot where the previous
\* snapshot of the process had issues, the store has no active incident,
\* whether ALERT_ON_RECOVERY is set or not.
C23_RecoveryResolves ==
  (/\ Polled /\ LastPoll.kind = "healthy"
   /\ ~LastPoll.first /\ PrevKind = "issues")
  => LastPoll.nact = 0

\* C24: in a poll that handles a degraded->healthy transition with
\* ALERT_ON_RECOVERY set, every destination whose edit failed is then sent the
\* recovery alert as a new message.
C24_FailedEditThenSend ==
  (/\ Polled /\ LastPoll.kind = "healthy"
   /\ ~LastPoll.first /\ PrevKind = "issues"
   /\ config.recovery)
  => \A k \in 1..Len(LastSent) :
       (LastSent[k].op = "edit" /\ ~LastSent[k].ok)
       => \E j \in (k + 1)..Len(LastSent) :
            /\ LastSent[j].group = LastSent[k].group
            /\ LastSent[j].op = "send" /\ LastSent[j].kind = "up"

\* The step is a poll of a loop past its first check that fetched issues where
\* the previous snapshot had issues
StillDegraded ==
  /\ Len(polls') = Len(polls) + 1
  /\ polls'[Len(polls')].kind = "issues" /\ ~polls'[Len(polls')].first
  /\ previous_status.kind = "issues"

\* C25: a degraded->degraded poll makes no send (only edits), also when an
\* earlier send or edit to a destination failed, and leaves the deduplicator
\* and the incident store as they were.
C25_StillDegradedOnlyEdits ==
  [][StillDegraded
     => /\ \A k \in (Len(sink) + 1)..Len(sink') : sink'[k].op = "edit"
        /\ alert_history' = alert_history /\ last_cleanup' = last_cleanup
        /\ incidents' = incidents /\ durable' = durable
        /\ current_incident_id' = current_incident_id]_vars

\* The latest poll made a call of this kind to every destination, and no other
\* call
NoticeToAll(kind) ==
  /\ Len(LastSent) = NumGroups
  /\ \A g \in Groups :
       \E k \in 1..Len(LastSent) :
         LastSent[k].group = g /\ LastSent[k].op = "send" /\ LastSent[k].kind = kind

\* C26: after a first check that fetched a healthy snapshot while the store
\* held an active incident, no incident is active, whether ALERT_ON_RECOVERY is
\* set or not; and when it is set the check sent a recovery alert to every
\* destination.
C26_FirstCheckResolves ==
  (/\ Polled /\ LastPoll.first /\ LastPoll.kind = "healthy"
   /\ ActiveBefore >= 1)
  => /\ LastPoll.nact = 0
     /\ config.recovery => NoticeToAll("up")

\* The latest row of the store is a resolved incident that ended less than
\* RECENT_INCIDENT_THRESHOLD_HOURS ago
RecentlyResolved ==
  /\ incidents # <<>>
  /\ incidents[Len(incidents)].status = "resolved"
  /\ now - incidents[Len(incidents)].end_time < RECENT_INCIDENT_THRESHOLD_HOURS * 3600

\* C27: a first check that fetched a healthy snapshot while the store had no
\* active incident sent exactly one notice to every destination: a recovery
\* notice if the latest incident was resolved less than 24 h ago and
\* ALERT_ON_RECOVERY is set, a neutral notice otherwise; it added no incident
\* and no record to the deduplicator.
C27_FirstCheckOneNotice ==
  (/\ Polled /\ LastPoll.first /\ LastPoll.kind = "healthy"
   /\ ActiveBefore = 0)
  => /\ IF RecentlyResolved /\ config.recovery
        THEN NoticeToAll("up") ELSE NoticeToAll("info")
     /\ LastPoll.rows = RowsBefore
     /\ alert_history = EmptyMap

\* The step is a poll whose fetch returned an error snapshot
ErrorPoll ==
  /\ Len(polls') = Len(polls) + 1
  /\ polls'[Len(polls')].kind = "error"

\* C28: a poll whose snapshot has error=true leaves previous_status, the
\* incident store, the deduplicator, alert_message_ids and issue_start_time as
\* they were; so the polls issues, error, healthy end as issues, healthy do
\* (the incident resolved, the references cleared and, with ALERT_ON_RECOVERY
\* set, one recovery call per destination), and the last poll of healthy,
\* error, healthy sends nothing and leaves the store as it was.
C28_ErrorSnapshotIsSkipped ==
  /\ [][ErrorPoll => UNCHANGED <<previous_status, incidents, durable, current_incident_id,
                                 alert_history, last_cleanup, alert_message_ids,
                                 issue_start_time>>]_vars
  /\ []((/\ Len(Run) >= 3
         /\ Kinds(SubSeq(Run, Len(Run) - 2, Len(Run))) = <<"issues", "error", "healthy">>)
        => /\ alert_message_ids = NoIds /\ issue_start_time = NoTime
           /\ config.recovery =>
                /\ LastPoll.nact = 0
                /\ Len(LastSent) = NumGroups
                /\ \A k \in 1..Len(LastSent) : LastSent[k].kind = "up")
  /\ []((/\ Len(Run) >= 3
         /\ Kinds(SubSeq(Run, Len(Run) - 2, Len(Run))) = <<"healthy", "error", "healthy">>)
        => /\ LastPoll.nsent = 0
           /\ LastPoll.rows = polls[Len(polls) - 2].rows
           /\ LastPoll.nact = polls[Len(polls) - 2].nact)

\* issues, error, healthy with both flags set: the incident opened by the
\* first poll is resolved by the third
C28_Witness ==
  /\ Kinds(Run) = <<"issues", "error", "healthy">>
  /\ DefaultFlags(config)
  /\ Len(incidents) = 1 /\ incidents[1].status = "resolved"
  /\ alert_message_ids = NoIds

\* The error snapshots fetched since the last successful fetch of the process
ErrorsSinceSuccess ==
  Cardinality({i \in 1..Len(Run) :
                 /\ Run[i].kind = "error"
                 /\ \A j \in i..Len(Run) : Run[j].kind \notin {"issues", "healthy"}})

\* C29: consecutive_errors is at any time the number of error snapshots
\* fetched since the last successful fetch; get_health_status reports that
\* value and changes nothing of the monitor.
C29_CountsErrorSnapshots ==
  /\ [](consecutive_errors = ErrorsSinceSuccess)
  /\ [][obs' # obs
         => /\ obs'[1].consecutive_errors = consecutive_errors
            /\ UNCHANGED <<trackerVars, dedupVars, monitorVars>>]_vars

\* C30: a down alert whose fingerprint has a record is refused while less than
\* DEDUP_WINDOW seconds have passed since the record's timestamp, and then the
\* record keeps its timestamp and counts one more; otherwise it is allowed and
\* the record becomes (now, 1), whatever its count was.  The timestamp is thus
\* that of the last allowed alert.
C30_WindowAnchoredAtLastAllowed ==
  obs # <<>> =>
    LET b == obs[Len(obs)]
        h == _generate_alert_hash(b.region, b.status, b.components)
    IN  (b.status = "down" /\ h \in DOMAIN b.before)
        => IF b.at - b.before[h].ts < DEDUP_WINDOW
           THEN /\ ~b.ret
                /\ alert_history[h] = [ts |-> b.before[h].ts, count |-> b.before[h].count + 1]
           ELSE /\ b.ret
                /\ alert_history[h] = [ts |-> b.at, count |-> 1]

\* an alert allowed DEDUP_WINDOW seconds after the last allowed one and less
\* than that after a suppressed duplicate
C30_Witness ==
  /\ Len(obs) = 2
  /\ LET a == obs[1]
         b == obs[2]
         h == _generate_alert_hash(b.region, b.status, b.components)
     IN  /\ a.status = "down" /\ b.status = "down"
         /\ a.region = b.region /\ a.components = b.components
         /\ ~a.ret /\ b.ret
         /\ b.at - a.at < DEDUP_WINDOW
         /\ b.before[h].count = 2
         /\ b.at - b.before[h].ts = DEDUP_WINDOW
         /\ alert_history[h] = [ts |-> b.at, count |-> 1]

\* The step is a should_send_alert call, and the call it made
DedupCall == obs' # obs /\ obs' # <<>> /\ obs'[Len(obs')].op = "should_send_alert"
Called == obs'[Len(obs')]
Swept == last_cleanup' # last_cleanup

\* C31: a should_send_alert call for a down alert sweeps exactly when
\* CLEANUP_INTERVAL seconds or more have passed since the previous sweep (or
\* construction); the sweep removes exactly the records whose timestamp is
\* older than 2 * DEDUP_WINDOW, none of them inside the window, and a call
\* whose fingerprint has a record inside the window is refused whether or not
\* it swept.  A call for an up alert does not sweep.
C31_SweepIsPeriodicAndSafe ==
  [][DedupCall =>
       LET h == _generate_alert_hash(Called.region, Called.status, Called.components)
           old == {k \in DOMAIN alert_history : alert_history[k].ts < now - 2 * DEDUP_WINDOW}
       IN  IF Called.status = "up" THEN ~Swept /\ alert_history' = alert_history
           ELSE /\ Swept <=> (now - last_cleanup >= CLEANUP_INTERVAL)
                /\ Swept => last_cleanup' = now
                /\ DOMAIN alert_history' =
                     (DOMAIN alert_history \ (IF Swept THEN old ELSE {})) \cup {h}
                /\ \A k \in DOMAIN alert_history' \ {h} : alert_history'[k] = alert_history[k]
                /\ \A k \in old : now - alert_history[k].ts >= DEDUP_WINDOW
                /\ (h \in DOMAIN alert_history /\ now - alert_history[h].ts < DEDUP_WINDOW)
                     => ~Called.ret]_vars

\* a call that swept: the record of another fingerprint, older than twice the
\* window, is gone, and one exactly twice the window old is kept
C31_Witness ==
  /\ obs # <<>>
  /\ LET b == obs[Len(obs)]
     IN  /\ b.status = "down" /\ last_cleanup = b.at /\ b.at >= CLEANUP_INTERVAL
         /\ \E k \in DOMAIN b.before : k \notin DOMAIN alert_history
         /\ \E k \in DOMAIN b.before :
              k \in DOMAIN alert_history /\ b.before[k].ts = b.at - 2 * DEDUP_WINDOW

Members(seq) == {seq[i] : i \in 1..Len(seq)}

\* C32: two down alerts have the same fingerprint exactly when their regions
\* are equal and their component lists have the same members, in whatever
\* order; and of two consecutive calls that differ in region or members the
\* second is answered as it would have been without the first.
C32_FingerprintIsRegionAndSet ==
  Len(obs) = 2 =>
    LET a == obs[1]
        b == obs[2]
        ha == _generate_alert_hash(a.region, a.status, a.components)
        hb == _generate_alert_hash(b.region, b.status, b.components)
        same == a.region = b.region /\ Members(a.components) = Members(b.components)
    IN  (a.status = "down" /\ b.status = "down")
        => /\ (ha = hb) <=> same
           /\ ~same =>
                (b.ret <=> ~(/\ hb \in DOMAIN a.before
                             /\ b.at - a.before[hb].ts < DEDUP_WINDOW))

\* the same components in another order: the second alert is refused
C32_Witness ==
  /\ Len(obs) = 2
  /\ obs[1].components = <<"CRM", "Mail">> /\ obs[2].components = <<"Mail", "CRM">>
  /\ obs[1].region = obs[2].region
  /\ obs[1].ret /\ ~obs[2].ret

\* C33: a should_send_alert call in which a statement raised (in the sweep, in
\* the fingerprint computation or in the lookup of the record) returns True.
C33_FailsOpen ==
  (obs # <<>> /\ obs[Len(obs)].op = "should_send_alert" /\ obs[Len(obs)].fault # "none")
  => obs[Len(obs)].ret

\* C34: the incident history is append-only and resolved rows are immutable:
\* no operation removes a row of the store, the ids (the positions of the rows)
\* keep their order, and a row whose status is resolved keeps its status, its
\* end_time and its duration through every later operation, a repeated
\* end_incident and one that follows a failed end_incident included
C34_AppendOnlyResolvedImmutable ==
  [][/\ Len(durable') >= Len(durable)
     /\ \A i \in 1..Len(durable) :
          /\ durable'[i].start_time = durable[i].start_time
          /\ durable[i].status = "resolved" =>
               /\ durable'[i].status = "resolved"
               /\ durable'[i].end_time = durable[i].end_time
               /\ durable'[i].duration = durable[i].duration]_vars

\* The record of the tracker call a step makes
CallMade == obs'[Len(obs')]

\* C35: a start_incident or end_incident that fails with a storage error
\* leaves the committed store and current_incident_id as they were, and what
\* it wrote before failing never reaches the store: the store changes only by
\* a call that succeeds, by the one row that call appends or updates
C35_FailedCallLeavesNoTrace ==
  [][/\ (faults' # faults /\ CallMade.op \in {"end", "start"}) =>
          /\ durable' = durable
          /\ current_incident_id' = current_incident_id
     /\ durable' # durable =>
          /\ faults' = faults
          /\ \/ /\ CallMade.op = "start"
                /\ durable' = Append(durable, durable'[Len(durable')])
             \/ /\ CallMade.op = "end"
                /\ Len(durable') = Len(durable)
                /\ \A i \in 1..Len(durable) :
                     i # CallMade.pre_cur => durable'[i] = durable[i]]_vars

\* C36: within one run of the poll loop only the very first fetch is made
\* without a sleep before it.  A loop comes to a fetch from the loop head or
\* out of a sleep, so this says: the iteration a fetch begins ends in an
\* asyncio.sleep before the loop is back at its head, also when the fetch
\* returned an error snapshot and when an exception was raised during the
\* first check
C36_OnlyFirstFetchUnslept ==
  [][\A l \in 1..MaxLoops :
       (loops[l].pc = "fetch" /\ loops'[l].pc \notin {"none", "fetch"})
         => loops'[l].pc \in Sleeps]_vars

\* The step is a poll of a loop past its first check that fetched a healthy
\* snapshot where the previous snapshot had issues, with ALERT_ON_RECOVERY set
RecoveryObserved ==
  /\ Len(polls') = Len(polls) + 1
  /\ polls'[Len(polls')].kind = "healthy" /\ ~polls'[Len(polls')].first
  /\ previous_status.kind = "issues"
  /\ config.recovery

FetchesReturn ==
  \A n \in 0..(MaxPolls - 1) : (AtFetch /\ NPolls = n) ~> (NPolls > n)

C39_PointerNamesActiveRow ==
  current_incident_id # 0 => current_incident_id \in ActiveIds(incidents)

====
